---- MODULE Spec2Model ----
(***************************************************************************)
(* A model of the CV analyzer: ResumeParser (models/resume_parser.py),     *)
(* ATSChecker (models/ats_checker.py), KeywordMatcher                      *)
(* (models/keyword_matcher.py) and AnalyzerController                      *)
(* (controllers/analyzer_controller.py).                                   *)
(*                                                                         *)
(* A text is a non-empty sequence of lines (the text split at "\n"); the   *)
(* empty text is <<"">>.  TLC has no character operations, so the regular  *)
(* expressions of the source are tabulated on a fixed alphabet of lines:   *)
(* every table below gives, for each line of the alphabet, what the        *)
(* regular expression or string test of the source yields on that line.    *)
(* Every header keyword of the alphabet stands at column 0 of its line and *)
(* no line holds two header keywords.                                      *)
(***************************************************************************)
EXTENDS Integers, Sequences, FiniteSets, TLC

(***************************************************************************)
(* Python values.                                                          *)
(***************************************************************************)
None == "None"

Has(d, k) == k \in DOMAIN d

Min(a, b) == IF a <= b THEN a ELSE b

Max(a, b) == IF a >= b THEN a ELSE b

\* the outcome of a call: the value it returns, or the exception it raises
Ok(v) == [ok |-> TRUE, value |-> v]

Raise(msg) == [ok |-> FALSE, value |-> msg]

RECURSIVE SeqSum(_)
SeqSum(s) == IF s = <<>> THEN 0 ELSE Head(s) + SeqSum(Tail(s))

SeqToSet(s) == {s[i] : i \in DOMAIN s}

RECURSIVE Concat(_)
Concat(ss) == IF ss = <<>> THEN <<>> ELSE Head(ss) \o Concat(Tail(ss))

(***************************************************************************)
(* The alphabet of lines and the tables of the source's patterns on it.    *)
(***************************************************************************)
Lines ==
    { "John Doe", "john@x.com", "555-123-4567", "", "Cairo, Egypt",
      "Experience", "Engineer at Acme, Jan 2020 - Dec 2021", "Built APIs.",
      "Skills", "python, sql",
      "Education", "Bachelor of Science at State University, 2019",
      "Bachelor of Science", "State University, 2015 - 2019",
      "Summary", "Backend developer.",
      "Projects", "Resume analyzer in python",
      "Certifications", "AWS Certified Developer",
      "  Designed services", "    Tuned queries",
      "Limited text could be extracted from image-based PDF." }

\* len(line)
LineLen(l) ==
    CASE l = "John Doe" -> 8
      [] l = "john@x.com" -> 10
      [] l = "555-123-4567" -> 12
      [] l = "" -> 0
      [] l = "Cairo, Egypt" -> 12
      [] l = "Experience" -> 10
      [] l = "Engineer at Acme, Jan 2020 - Dec 2021" -> 37
      [] l = "Built APIs." -> 11
      [] l = "Skills" -> 6
      [] l = "python, sql" -> 11
      [] l = "Education" -> 9
      [] l = "Bachelor of Science at State University, 2019" -> 45
      [] l = "Bachelor of Science" -> 19
      [] l = "State University, 2015 - 2019" -> 29
      [] l = "Summary" -> 7
      [] l = "Backend developer." -> 18
      [] l = "Projects" -> 8
      [] l = "Resume analyzer in python" -> 25
      [] l = "Certifications" -> 14
      [] l = "AWS Certified Developer" -> 23
      [] l = "  Designed services" -> 19
      [] l = "    Tuned queries" -> 17
      [] l = "Limited text could be extracted from image-based PDF." -> 53

\* len(line) - len(line.lstrip())
Indent(l) ==
    CASE l = "  Designed services" -> 2
      [] l = "    Tuned queries" -> 4
      [] OTHER -> 0

\* line.strip(); no line of the alphabet ends in whitespace
Strip(l) ==
    CASE l = "  Designed services" -> "Designed services"
      [] l = "    Tuned queries" -> "Tuned queries"
      [] OTHER -> l

\* not line.strip()
IsBlank(l) == LineLen(l) - Indent(l) = 0

\* the section-header pattern (by name) that matches the lowered line
HeaderKinds(l) ==
    CASE l = "Experience" -> {"experience"}
      [] l = "Skills" -> {"skills"}
      [] l = "Education" -> {"education"}
      [] l = "Summary" -> {"summary"}
      [] l = "Projects" -> {"projects"}
      [] l = "Certifications" -> {"certifications"}
      [] OTHER -> {}

\* date_pattern.search(line).group(0), "" without a match
DateIn(l) ==
    CASE l = "Engineer at Acme, Jan 2020 - Dec 2021" -> "Jan 2020 - Dec 2021"
      [] l = "State University, 2015 - 2019" -> "2015 - 2019"
      [] OTHER -> ""

\* email_pattern.search(line).group(0), "" without a match
EmailIn(l) == IF l = "john@x.com" THEN "john@x.com" ELSE ""

\* phone_pattern.search(line).group(0), "" without a match
PhoneIn(l) == IF l = "555-123-4567" THEN "555-123-4567" ELSE ""

\* linkedin_pattern and github_pattern match no line of the alphabet
LinkedinIn(l) == ""

GithubIn(l) == ""

\* the entries of skills_db that match the line as whole words
SkillsIn(l) ==
    CASE l = "python, sql" -> {"python", "sql"}
      [] l = "Backend developer." -> {"backend"}
      [] l = "Resume analyzer in python" -> {"python"}
      [] l = "AWS Certified Developer" -> {"aws"}
      [] OTHER -> {}

\* any(keyword in line.lower() for keyword in degree_keywords)
HasDegreeKeyword(l) ==
    l \in { "Bachelor of Science at State University, 2019",
            "Bachelor of Science", "Summary", "Backend developer." }

\* "university" in line.lower() or "college" in line.lower()
HasInstitution(l) ==
    l \in { "Bachelor of Science at State University, 2019",
            "State University, 2015 - 2019" }

\* "," in line, and the two parts of line.split(',', 1), stripped
HasComma(l) ==
    l \in { "Engineer at Acme, Jan 2020 - Dec 2021", "python, sql",
            "Bachelor of Science at State University, 2019",
            "State University, 2015 - 2019", "Cairo, Egypt" }

CommaSplit(l) ==
    CASE l = "Engineer at Acme, Jan 2020 - Dec 2021" ->
             <<"Engineer at Acme", "Jan 2020 - Dec 2021">>
      [] l = "python, sql" -> <<"python", "sql">>
      [] l = "Bachelor of Science at State University, 2019" ->
             <<"Bachelor of Science at State University", "2019">>
      [] l = "State University, 2015 - 2019" ->
             <<"State University", "2015 - 2019">>
      [] l = "Cairo, Egypt" -> <<"Cairo", "Egypt">>
      [] OTHER -> <<l, "">>

\* " at " in line.lower(), and the text before and after its first " at "
HasAt(l) ==
    l \in { "Engineer at Acme, Jan 2020 - Dec 2021",
            "Bachelor of Science at State University, 2019" }

AtSplit(l) ==
    CASE l = "Engineer at Acme, Jan 2020 - Dec 2021" ->
             <<"Engineer", "Acme, Jan 2020 - Dec 2021">>
      [] l = "Bachelor of Science at State University, 2019" ->
             <<"Bachelor of Science", "State University, 2019">>
      [] OTHER -> <<l, "">>

\* the named-entity backend on a line: the text of its first GPE entity
GpeIn(l) == IF l = "Cairo, Egypt" THEN "Cairo" ELSE ""

\* the named-entity backend on a line: the lowered noun chunks of at most
\* three words whose root is a non-stopword noun and that name no person
NounChunksIn(l) ==
    CASE l = "Built APIs." -> {"apis"}
      [] l = "Backend developer." -> {"backend developer"}
      [] l = "  Designed services" -> {"services"}
      [] l = "    Tuned queries" -> {"queries"}
      [] OTHER -> {}

(***************************************************************************)
(* Positions in a text.                                                    *)
(***************************************************************************)
\* the character offset of the first character of line i
RECURSIVE Offset(_, _)
Offset(t, i) == IF i = 1 THEN 0 ELSE Offset(t, i - 1) + LineLen(t[i - 1]) + 1

\* len(text)
TextLen(t) == Offset(t, Len(t)) + LineLen(t[Len(t)])

\* not text
IsEmptyText(t) == t = <<"">>

\* not text.strip()
IsBlankText(t) == \A i \in DOMAIN t : IsBlank(t[i])

\* pattern.finditer(text): the lines that hold a match of one of the patterns
MatchLines(t, kinds) == {i \in DOMAIN t : HeaderKinds(t[i]) \cap kinds # {}}

SetMin(S) == CHOOSE x \in S : \A y \in S : x <= y

SetMax(S) == CHOOSE x \in S : \A y \in S : x >= y
(***************************************************************************)
(* ResumeParser: section windows and entries.                              *)
(***************************************************************************)
AttributeErrorMsg == "'ResumeParser' object has no attribute 'certifications_headers'"

IndexErrorMsg == "list index out of range"

\* matches[0].start() of a section's header pattern: its line, 0 without one
SectionStart(t, kind) ==
    IF MatchLines(t, {kind}) = {} THEN 0 ELSE SetMin(MatchLines(t, {kind}))

\* the first match of the other sections' patterns in text_lower[start_idx:]:
\* its line, 0 when the section runs to the end of the text
SectionEnd(t, s, kinds) ==
    LET M == {i \in MatchLines(t, kinds) : i >= s}
    IN  IF M = {} THEN 0 ELSE SetMin(M)

\* text[start_idx:end_idx] as lines; a window that stops at a header ends
\* with the newline before that header
WindowLines(t, s, e) ==
    IF e = 0 THEN SubSeq(t, s, Len(t)) ELSE SubSeq(t, s, e - 1) \o <<"">>

\* re.split(r'\n\s*\n', window): a separator runs from the newline that ends
\* line i over the blank lines that follow, up to the last newline it can end on
RECURSIVE SplitEntries(_)
SplitEntries(ls) ==
    LET n == Len(ls)
        cuts == {i \in 1..(n - 2) : IsBlank(ls[i + 1])}
    IN  IF cuts = {} THEN <<ls>>
        ELSE LET i == SetMin(cuts)
                 j == SetMax({k \in (i + 1)..(n - 1) :
                                \A m \in (i + 1)..k : IsBlank(ls[m])})
             IN  <<SubSeq(ls, 1, i)>> \o SplitEntries(SubSeq(ls, j + 1, n))

\* entry.strip().split('\n'): blank lines at both ends dropped, the first
\* line stripped of its indentation
EntryLines(c) ==
    LET nb == {i \in DOMAIN c : ~IsBlank(c[i])}
    IN  IF nb = {} THEN <<>>
        ELSE LET core == SubSeq(c, SetMin(nb), SetMax(nb))
             IN  <<Strip(core[1])>> \o Tail(core)

\* len(entry.strip())
EntryStripLen(c) ==
    LET nb == {i \in DOMAIN c : ~IsBlank(c[i])}
    IN  IF nb = {} THEN 0
        ELSE LET core == SubSeq(c, SetMin(nb), SetMax(nb))
             IN  SeqSum([i \in DOMAIN core |-> LineLen(core[i])])
                   + (Len(core) - 1) - Indent(core[1])

\* date_pattern.search(entry): the first date range of the entry
EntryDate(c) ==
    LET d == {i \in DOMAIN c : DateIn(c[i]) # ""}
    IN  IF d = {} THEN "" ELSE DateIn(c[SetMin(d)])

\* entries[1:] without the entries shorter than 10 characters
KeptEntries(ls) ==
    SelectSeq(Tail(SplitEntries(ls)), LAMBDA c : EntryStripLen(c) >= 10)

\* one experience entry (lines 462-492)
ExperienceEntry(c) ==
    LET lines == EntryLines(c)
        first == Strip(lines[1])
        tc == IF Len(lines) < 2 THEN <<"", "">>
              ELSE IF HasComma(first) THEN CommaSplit(first)
              ELSE IF HasAt(first) THEN AtSplit(first)
              ELSE <<first, IF Len(lines) >= 3 THEN Strip(lines[2]) ELSE "">>
    IN  [title |-> tc[1], company |-> tc[2], date_range |-> EntryDate(c),
         description |-> lines]

\* _extract_experience; hasCert: self.certifications_headers is set
ExtractExperience(t, hasCert) ==
    LET s == SectionStart(t, "experience")
    IN  IF s = 0 THEN Ok(<<>>)
        ELSE IF ~hasCert THEN Raise(AttributeErrorMsg)
        ELSE LET e == SectionEnd(t, s, {"education", "skills", "projects",
                                        "certifications"})
                 kept == KeptEntries(WindowLines(t, s, e))
             IN  Ok([i \in DOMAIN kept |-> ExperienceEntry(kept[i])])

\* one education entry (lines 527-560); line 549 reads lines[1] of a
\* one-line entry and raises IndexError
EducationEntry(c) ==
    LET lines == EntryLines(c)
        two == 1..Min(2, Len(lines))
        hits == {k \in two : HasDegreeKeyword(lines[k])}
        insts == {k \in two : HasInstitution(lines[k])}
    IN  IF hits # {}
        THEN IF Len(lines) = 1 THEN Raise(IndexErrorMsg)
             ELSE Ok([degree |-> Strip(lines[SetMin(hits)]),
                      institution |-> IF HasInstitution(lines[2])
                                      THEN Strip(lines[2]) ELSE "",
                      date_range |-> EntryDate(c), description |-> lines])
        ELSE Ok([degree |-> "",
                 institution |-> IF insts = {} THEN ""
                                 ELSE Strip(lines[SetMin(insts)]),
                 date_range |-> EntryDate(c), description |-> lines])

\* _extract_education
ExtractEducation(t, hasCert) ==
    LET s == SectionStart(t, "education")
    IN  IF s = 0 THEN Ok(<<>>)
        ELSE IF ~hasCert THEN Raise(AttributeErrorMsg)
        ELSE LET e == SectionEnd(t, s, {"experience", "skills", "projects",
                                        "certifications"})
                 kept == KeptEntries(WindowLines(t, s, e))
                 made == [i \in DOMAIN kept |-> EducationEntry(kept[i])]
             IN  IF \E i \in DOMAIN made : ~made[i].ok
                 THEN Raise(IndexErrorMsg)
                 ELSE Ok([i \in DOMAIN made |-> made[i].value])

\* _extract_projects
ExtractProjects(t, hasCert) ==
    LET s == SectionStart(t, "projects")
    IN  IF s = 0 THEN Ok(<<>>)
        ELSE IF ~hasCert THEN Raise(AttributeErrorMsg)
        ELSE LET e == SectionEnd(t, s, {"experience", "education", "skills",
                                        "certifications"})
                 kept == KeptEntries(WindowLines(t, s, e))
             IN  Ok([i \in DOMAIN kept |->
                      [name |-> Strip(EntryLines(kept[i])[1]),
                       description |-> EntryLines(kept[i]),
                       technologies |->
                           UNION {SkillsIn(kept[i][k]) : k \in DOMAIN kept[i]}]])

\* _extract_certifications, after it has set self.certifications_headers:
\* the lines of the window after the header line whose stripped length is
\* in 6..99 (no line of the alphabet starts with a bullet or a number)
ExtractCertifications(t) ==
    LET s == SectionStart(t, "certifications")
    IN  IF s = 0 THEN <<>>
        ELSE LET e == SectionEnd(t, s, {"experience", "education", "skills",
                                        "projects"})
                 ls == Tail(WindowLines(t, s, e))
                 keep == SelectSeq(ls, LAMBDA l :
                            LineLen(l) - Indent(l) > 5
                            /\ LineLen(l) - Indent(l) < 100)
             IN  [i \in DOMAIN keep |-> Strip(keep[i])]
\* _extract_summary: the text after the header up to the next header,
\* stripped; longer than 500 characters, cut at its first empty line
SummaryLimit == 500

ExtractSummary(t) ==
    LET s == SectionStart(t, "summary")
    IN  IF s = 0 THEN <<>>
        ELSE LET e == SectionEnd(t, s, {"experience", "education", "skills",
                                        "projects"})
                 raw == Tail(WindowLines(t, s, e))
                 body == EntryLines(raw)
                 size == EntryStripLen(raw)
                 gaps == {i \in DOMAIN body : body[i] = ""}
             IN  IF size > SummaryLimit /\ gaps # {}
                 THEN EntryLines(SubSeq(body, 1, SetMin(gaps) - 1))
                 ELSE body

\* text.strip().split('\n\n')[0].strip(): the lines from the first one that
\* is not blank up to the first empty line after it
FirstParagraph(t) ==
    LET filled == {i \in DOMAIN t : ~IsBlank(t[i])}
    IN  IF filled = {} THEN <<>>
        ELSE LET gaps == {i \in DOMAIN t : i > SetMin(filled) /\ t[i] = ""}
             IN  SubSeq(t, SetMin(filled),
                        IF gaps = {} THEN Len(t) ELSE SetMin(gaps) - 1)

\* _extract_contact_info; nlp: the spaCy model is loaded
NameLimit == 50

LocationWindow == 1000

ExtractContactInfo(t, nlp) ==
    LET first == {i \in 1..Min(3, Len(t)) :
                     /\ LineLen(t[i]) - Indent(t[i]) > 0
                     /\ LineLen(t[i]) - Indent(t[i]) < NameLimit
                     /\ EmailIn(t[i]) = "" /\ PhoneIn(t[i]) = ""
                     /\ LinkedinIn(t[i]) = ""}
        FirstOf(F(_)) == LET m == {i \in DOMAIN t : F(t[i]) # ""}
                         IN  IF m = {} THEN "" ELSE F(t[SetMin(m)])
        gpe == {i \in DOMAIN t : GpeIn(t[i]) # ""
                                  /\ Offset(t, i) + LineLen(t[i]) <= LocationWindow}
    IN  [name |-> IF first = {} THEN "" ELSE Strip(t[SetMin(first)]),
         email |-> FirstOf(EmailIn),
         phone |-> FirstOf(PhoneIn),
         linkedin |-> FirstOf(LinkedinIn),
         github |-> FirstOf(GithubIn),
         location |-> IF nlp /\ gpe # {} THEN GpeIn(t[SetMin(gpe)]) ELSE ""]

\* _extract_skills: the skills section runs from its header to the first
\* other header found from 10 characters after it; without a skills header
\* the whole text is searched.  The result is sorted(list(set(skills))).
HeaderSkip == 10

FewSkills == 5

ExtractSkills(t, nlp) ==
    LET s == SectionStart(t, "skills")
        next == {i \in MatchLines(t, {"experience", "education", "projects",
                                      "summary"}) :
                    s # 0 /\ Offset(t, i) >= Offset(t, s) + HeaderSkip}
        section == IF s = 0 THEN DOMAIN t
                   ELSE IF next = {} THEN s..Len(t)
                   ELSE s..(SetMin(next) - 1)
        found == UNION {SkillsIn(t[i]) : i \in section}
        chunks == UNION {NounChunksIn(t[i]) : i \in DOMAIN t}
    IN  IF nlp /\ Cardinality(found) < FewSkills
        THEN found \cup chunks ELSE found

\* _process_text: the extractors run in the order of the dict literal; the
\* first exception ends the call.  cert: whether the call has set
\* self.certifications_headers (line 782) when it ends.
ProcessedText(t, nlp, hasCert, exp, edu, proj) ==
    IF ~exp.ok THEN [res |-> exp, cert |-> hasCert]
    ELSE IF ~edu.ok THEN [res |-> edu, cert |-> hasCert]
    ELSE IF ~proj.ok THEN [res |-> proj, cert |-> hasCert]
    ELSE [res |-> Ok([contact_info |-> ExtractContactInfo(t, nlp),
                      skills |-> ExtractSkills(t, nlp),
                      experience |-> exp.value,
                      education |-> edu.value,
                      summary |-> ExtractSummary(t),
                      projects |-> proj.value,
                      certifications |-> ExtractCertifications(t),
                      full_text |-> t]),
          cert |-> TRUE]

ProcessText(t, hasCert, nlp) ==
    ProcessedText(t, nlp, hasCert, ExtractExperience(t, hasCert),
                  ExtractEducation(t, hasCert), ExtractProjects(t, hasCert))

(***************************************************************************)
(* ResumeParser.parse_resume.  A file is [exists, ext, text, problematic]:  *)
(* whether the path exists, its lowered extension, the text its extractor  *)
(* returns, and what _check_pdf_for_ats_issues returns for it.             *)
(* A message is a pair <<fixed text, interpolated text>>.                  *)
(***************************************************************************)
ParsedExtensions == {".pdf", ".docx", ".txt"}

\* lines 160-177: the processed text with the file format added, or the
\* error of the except clause
ParsedData(f, r) ==
    IF ~r.res.ok
    THEN [data |-> [error |-> <<"Error parsing resume: ", r.res.value>>],
          cert |-> r.cert]
    ELSE [data |-> [contact_info |-> r.res.value.contact_info,
                    skills |-> r.res.value.skills,
                    experience |-> r.res.value.experience,
                    education |-> r.res.value.education,
                    summary |-> r.res.value.summary,
                    projects |-> r.res.value.projects,
                    certifications |-> r.res.value.certifications,
                    full_text |-> r.res.value.full_text,
                    file_format |->
                        [extension |-> f.ext,
                         has_problematic_elements |->
                             IF f.ext = ".pdf" THEN f.problematic
                             ELSE FALSE]],
          cert |-> r.cert]

ParseResume(f, hasCert, nlp) ==
    IF ~f.exists THEN [data |-> [error |-> <<"File not found", "">>],
                       cert |-> hasCert]
    ELSE IF f.ext \notin ParsedExtensions
    THEN [data |-> [error |-> <<"Unsupported file format: ", f.ext>>],
          cert |-> hasCert]
    ELSE IF IsBlankText(f.text)
    THEN [data |-> [error |-> <<"No text could be extracted from the resume", "">>],
          cert |-> hasCert]
    ELSE ParsedData(f, ProcessText(f.text, hasCert, nlp))
(***************************************************************************)
(* ResumeParser: the text of a PDF.  A file also holds scan, the text      *)
(* pytesseract reads from its rendered page, and ocr, how the OCR pass     *)
(* ends on it: "ok", or the step that raises.  use_ocr stands for          *)
(* self.use_ocr and PYTESSERACT_AVAILABLE.  A PDF of the model has one     *)
(* page.                                                                   *)
(***************************************************************************)
\* the characters of the line outside [\w\s,.;:!?()[\]{}'"-]
WeirdChars(l) == IF l = "john@x.com" THEN 1 ELSE 0

\* the common_sections (line 625) found as whole words in the lowered line
CommonSectionsIn(l) ==
    CASE l = "Experience" -> {"experience"}
      [] l = "Skills" -> {"skills"}
      [] l = "Education" -> {"education"}
      [] l = "Summary" -> {"summary"}
      [] OTHER -> {}

ImageTextLimit == 100

WeirdShare == 15

MinSections == 2

\* _appears_to_be_image_pdf
AppearsToBeImagePdf(t) ==
    \/ IsBlankText(t)
    \/ EntryStripLen(t) < ImageTextLimit
    \/ 100 * SeqSum([i \in DOMAIN t |-> WeirdChars(t[i])])
           > WeirdShare * EntryStripLen(t)
    \/ Cardinality(UNION {CommonSectionsIn(t[i]) : i \in DOMAIN t})
           < MinSections

\* tempfile.mkdtemp(): a directory that did not exist
Mkdtemp(dirs) == Max(0, IF dirs = {} THEN 0 ELSE SetMax(dirs)) + 1

\* a cleanup that runs only when no exception passes
RmtreeOnSuccess(dirs, d, raised) == IF raised THEN dirs ELSE dirs \ {d}

\* the finally clause (lines 718-720): shutil.rmtree(temp_dir) on the
\* return and on every exception
Rmtree(dirs, d, raised) == dirs \ {d}

\* _extract_text_using_ocr: the text it returns and the temporary
\* directories that exist when it has returned
ExtractTextUsingOcr(f, use_ocr, dirs) ==
    IF ~use_ocr THEN [text |-> <<"">>, dirs |-> dirs]
    ELSE IF f.ocr = "ok"
    THEN [text |-> f.scan \o <<"", "">>,
          dirs |-> Rmtree(dirs \cup {Mkdtemp(dirs)}, Mkdtemp(dirs), FALSE)]
    ELSE [text |-> <<"">>,
          dirs |-> Rmtree(dirs \cup {Mkdtemp(dirs)}, Mkdtemp(dirs), TRUE)]

\* line 204: the OCR pass is attempted
OcrAttempted(f) ==
    /\ f.exists
    /\ f.ext = ".pdf"
    /\ (IsBlankText(f.text) \/ EntryStripLen(f.text) < ImageTextLimit
        \/ AppearsToBeImagePdf(f.text))

\* line 207-208: the OCR text replaces the text read from the PDF
OcrTextUsed(f, use_ocr) ==
    OcrAttempted(f) /\ ~IsEmptyText(ExtractTextUsingOcr(f, use_ocr, {}).text)

\* the file as parse_resume has it after lines 146-155: its text is what
\* the extractor of its format returns
Extracted(f, use_ocr) ==
    IF OcrTextUsed(f, use_ocr)
    THEN [f EXCEPT !.text = ExtractTextUsingOcr(f, use_ocr, {}).text]
    ELSE f

\* the temporary directories after parse_resume
TempDirsAfter(f, use_ocr, dirs) ==
    IF OcrAttempted(f) THEN ExtractTextUsingOcr(f, use_ocr, dirs).dirs ELSE dirs

(***************************************************************************)
(* Job descriptions.  The value None, the empty string, a string of three  *)
(* spaces, and strings of words.  No word of a job description of the      *)
(* model is part of another and each has at most five distinct words, so   *)
(* the limits [:15], [:20] and [:5] of ats_checker.py cut nothing.         *)
(***************************************************************************)
JobDescriptions == {None, "", "   ", "python sql java", "java docker", "the and"}

\* a test that takes only None for an absent job description
TruthyNotNone(jd) == jd # None

\* a job description of one sentence longer than 10 characters and five
\* shorter ones, given to the matcher alone
LongJd == "university sql. python. acme. engineer. bachelor. science."

MatcherJobDescriptions == JobDescriptions \cup {LongJd}

\* bool(job_description)
Truthy(jd) == jd \notin {None, ""}

\* re.findall(r'\b[a-zA-Z][a-zA-Z0-9+#\-.]*[a-zA-Z0-9]\b', text.lower())
JdTokens(jd) ==
    CASE jd = "python sql java" -> <<"python", "sql", "java">>
      [] jd = "java docker" -> <<"java", "docker">>
      [] jd = "the and" -> <<"the", "and">>
      [] OTHER -> <<>>

\* len(word)
WordLen(w) ==
    CASE w = "python" -> 6
      [] w = "sql" -> 3
      [] w = "java" -> 4
      [] w = "docker" -> 6
      [] w = "the" -> 3
      [] w = "and" -> 3

\* stop_words of ATSChecker._extract_keywords
AtsStopWords ==
    { "a", "an", "the", "and", "or", "but", "if", "because", "as", "what",
      "when", "where", "how", "all", "any", "both", "each", "few", "more",
      "most", "some", "such", "no", "nor", "not", "only", "own", "same", "so",
      "than", "too", "very", "s", "t", "can", "will", "just", "don", "should",
      "now", "to", "from", "by", "for", "with", "about", "against", "between",
      "into", "through", "during", "before", "after", "above", "below", "up",
      "down", "in", "out", "on", "off", "over", "under", "again", "further",
      "then", "once", "here", "there", "why", "other" }

\* the entries of common_skills that are part of the job description
AtsPhrases(jd) ==
    CASE jd = "python sql java" -> {"python", "java", "sql"}
      [] jd = "java docker" -> {"java", "docker"}
      [] OTHER -> {}

\* ATSChecker._extract_keywords, as a set: the filtered words that are part
\* of no phrase, and the phrases
AtsExtractKeywords(jd) ==
    LET words == {w \in SeqToSet(JdTokens(jd)) :
                     w \notin AtsStopWords /\ WordLen(w) > 2}
    IN  {w \in words : w \notin AtsPhrases(jd)} \cup AtsPhrases(jd)

\* re.search(r'\b' + re.escape(keyword) + r'\b', line.lower())
WordsIn(l) ==
    CASE l = "python, sql" -> {"python", "sql"}
      [] l = "Resume analyzer in python" -> {"python"}
      [] OTHER -> {}

(***************************************************************************)
(* ATS platform rules.                                                     *)
(***************************************************************************)
\* _load_default_rules
DefaultRules ==
    [p \in {"taleo"} |->
        [name |-> "Taleo",
         parsing_rules |->
            [preferred_format |-> "chronological",
             section_headings |-> <<"Education", "Experience", "Skills", "Projects">>,
             keywords_importance |-> "high",
             formatting_preferences |->
                [bullet_points |-> TRUE, tables |-> FALSE, images |-> FALSE,
                 headers_footers |-> FALSE, columns |-> FALSE,
                 fancy_fonts |-> FALSE],
             file_preferences |-> <<"pdf", "docx", "txt">>,
             recommended_fonts |-> <<"Arial", "Times New Roman", "Calibri">>]]]

\* entries an external rules file can hold
FileTaleo ==
    [name |-> "Taleo",
     parsing_rules |->
        [preferred_format |-> "chronological",
         section_headings |-> <<"Experience", "Education", "Skills">>,
         keywords_importance |-> "low",
         formatting_preferences |->
            [bullet_points |-> TRUE, tables |-> FALSE, images |-> FALSE,
             columns |-> FALSE],
         file_preferences |-> <<"docx">>,
         recommended_fonts |-> <<"Arial">>]]

FileWorkday ==
    [name |-> "Workday",
     parsing_rules |->
        [preferred_format |-> "hybrid",
         section_headings |-> <<"Summary", "Experience", "Education", "Skills">>,
         keywords_importance |-> "medium",
         formatting_preferences |->
            [bullet_points |-> FALSE, tables |-> TRUE, images |-> FALSE,
             columns |-> TRUE],
         file_preferences |-> <<"docx", "pdf", "txt", "rtf">>,
         recommended_fonts |-> <<"Calibri", "Arial">>]]

\* the contents json.load can return for a rules file
RuleFiles ==
    { [p \in {"taleo", "workday"} |-> IF p = "taleo" THEN FileTaleo ELSE FileWorkday],
      [p \in {"workday"} |-> FileWorkday],
      [p \in {} |-> FileWorkday] }

\* ATSChecker.__init__: how == "absent" (no path, or the path does not
\* exist), "unreadable" (open or json.load raises) or "loaded"
LoadRules(how, content) == IF how = "loaded" THEN content ELSE DefaultRules

default_platform == "taleo"

Platforms == {None, "taleo", "workday", "icims"}
(***************************************************************************)
(* ATSChecker.  Scores are computed exactly (as rationals) and rounded as  *)
(* Python rounds: int() truncates, round() rounds half to even.            *)
(***************************************************************************)
\* dict.get(key, default)
Get(d, k, default) == IF k \in DOMAIN d THEN d[k] ELSE default

\* round(num / den) for num >= 0, den > 0
RoundHalfEven(num, den) ==
    LET q == num \div den
        r == num % den
    IN  IF 2 * r < den THEN q
        ELSE IF 2 * r > den THEN q + 1
        ELSE IF q % 2 = 0 THEN q ELSE q + 1

\* extension.lower().lstrip(".")
ExtName(ext) ==
    CASE ext = ".pdf" -> "pdf"
      [] ext = ".docx" -> "docx"
      [] ext = ".txt" -> "txt"
      [] ext = ".doc" -> "doc"
      [] OTHER -> ext

CommonFormats == {"pdf", "docx", "txt"}

NoFormatScore == 50

CommonFormatScore == 50

UncommonFormatScore == 20

ProblematicPenalty == 30

\* _check_file_format; no_format: the record has no file_format
CheckFileFormat(resume_data, preferred) ==
    IF ~Has(resume_data, "file_format") THEN NoFormatScore
    ELSE LET ext == ExtName(resume_data.file_format.extension)
             at == {i \in DOMAIN preferred : preferred[i] = ext}
         IN  IF at # {}
             THEN LET position == SetMin(at) - 1
                      d == Max(1, Len(preferred) - 1)
                      penalty == IF resume_data.file_format.has_problematic_elements
                                 THEN ProblematicPenalty ELSE 0
                  IN  (100 * d - 40 * position - penalty * d) \div d
             ELSE IF ext \in CommonFormats THEN CommonFormatScore
             ELSE UncommonFormatScore

\* re.search of one of bullet_patterns (which hold '-' and '*') in the line
HasBullet(l) ==
    l \in { "555-123-4567", "Engineer at Acme, Jan 2020 - Dec 2021",
            "State University, 2015 - 2019",
            "Limited text could be extracted from image-based PDF." }

ColumnLines == 10

\* the multi-column check of _check_formatting (lines 232-246): more than 10
\* lines, at least 3 indentation levels, and the second most frequent level
\* on more than 15% of the lines
MultiColumn(t) ==
    LET levels == {Indent(t[i]) : i \in {j \in DOMAIN t : ~IsBlank(t[j])}}
        count(v) == Cardinality({i \in DOMAIN t : ~IsBlank(t[i]) /\ Indent(t[i]) = v})
        top == CHOOSE v \in levels : \A w \in levels : count(v) >= count(w)
        second == CHOOSE v \in levels \ {top} :
                     \A w \in levels \ {top} : count(v) >= count(w)
    IN  /\ Len(t) > ColumnLines
        /\ Cardinality(levels) >= 3
        /\ 100 * count(second) > 15 * Len(t)

\* _check_formatting
CheckFormatting(resume_data, prefs) ==
    LET problematic == Has(resume_data, "file_format")
                       /\ resume_data.file_format.has_problematic_elements
        text == Get(resume_data, "full_text", <<"">>)
        has_bullet_points == \E i \in DOMAIN text : HasBullet(text[i])
        issues ==
            (IF problematic /\ ~Get(prefs, "tables", FALSE)
             THEN <<"Contains tables or complex formatting that may confuse ATS">>
             ELSE <<>>)
            \o (IF problematic /\ ~Get(prefs, "images", FALSE)
                THEN <<"Contains images or graphics that ATS cannot parse">>
                ELSE <<>>)
            \o (IF Get(prefs, "bullet_points", TRUE) /\ ~has_bullet_points
                THEN <<"Lacks bullet points for better readability and parsing">>
                ELSE <<>>)
            \o (IF ~Get(prefs, "columns", FALSE) /\ ~IsEmptyText(text)
                   /\ MultiColumn(text)
                THEN <<"May contain multi-column layout which can confuse ATS parsing">>
                ELSE <<>>)
        n == Cardinality(DOMAIN prefs) + 1
    IN  [score |-> IF issues = <<>> THEN 100
                   ELSE Max(0, 100 * n - 100 * Len(issues)) \div n,
         issues |-> issues]

\* re.search(r'experience|employment|work history', line.lower()) and
\* re.search(r'skills|expertise|competencies', line.lower())
AtsHeaderKinds(l) ==
    CASE l = "Experience" -> {"experience"}
      [] l = "Skills" -> {"skills"}
      [] OTHER -> {}

\* match.start() of the first match in the full text, -1 without a match
AtsHeaderPos(t, kind) ==
    LET m == {i \in DOMAIN t : kind \in AtsHeaderKinds(t[i])}
    IN  IF m = {} THEN -1 ELSE Offset(t, SetMin(m))

ExpectedSections == 5

FeedbackPenaltyCap == 40

\* _check_structure
CheckStructure(resume_data, preferred_format) ==
    LET has_contact == Has(resume_data, "contact_info")
                       /\ resume_data.contact_info.name # ""
        has_summary == Get(resume_data, "summary", <<>>) # <<>>
        has_experience == Get(resume_data, "experience", <<>>) # <<>>
        has_education == Get(resume_data, "education", <<>>) # <<>>
        has_skills == Get(resume_data, "skills", {}) # {}
        found == (IF has_contact THEN 1 ELSE 0) + (IF has_summary THEN 1 ELSE 0)
                 + (IF has_experience THEN 1 ELSE 0)
                 + (IF has_education THEN 1 ELSE 0)
                 + (IF has_skills THEN 1 ELSE 0)
        text == Get(resume_data, "full_text", <<"">>)
        exp_pos == AtsHeaderPos(text, "experience")
        skills_pos == AtsHeaderPos(text, "skills")
        feedback ==
            (IF has_contact THEN <<>>
             ELSE <<"Missing or incomplete contact information">>)
            \o (IF has_experience THEN <<>>
                ELSE <<"Missing work experience section">>)
            \o (IF has_education THEN <<>> ELSE <<"Missing education section">>)
            \o (IF has_skills THEN <<>> ELSE <<"Missing skills section">>)
            \o (IF preferred_format = "chronological"
                   /\ exp_pos > 0 /\ skills_pos > 0 /\ skills_pos < exp_pos
                THEN <<"For chronological format, work experience should come before skills section">>
                ELSE <<>>)
    IN  [score |-> Max(0, (found * 100) \div ExpectedSections
                          - Min(FeedbackPenaltyCap, 10 * Len(feedback))),
         feedback |-> feedback]

NoKeywordsScore == 50

\* the pairs <<m, n>> for which the float m / n * 100 * 0.7 is just below
\* the whole number 70 * m / n, so that int() gives one less
FloatProductBelow == {<<1, 7>>, <<2, 7>>}

\* lines 358-377 of _check_keyword_match: the score for m of the n job
\* keywords found in the resume
KeywordMatchScore(m, n, importance) ==
    IF n = 0 THEN NoKeywordsScore
    ELSE IF importance = "high"
    THEN (IF 100 * m < 30 * n
          THEN (70 * m) \div n
               - (IF <<m, n>> \in FloatProductBelow THEN 1 ELSE 0)
          ELSE (100 * m) \div n)
    ELSE IF importance = "medium" THEN (100 * m) \div n
    ELSE (IF 100 * m < 50 * n THEN (80 * m) \div n + 20
          ELSE (100 * m) \div n)

\* _check_keyword_match
CheckKeywordMatch(resume_data, jd, importance) ==
    LET job_keywords == AtsExtractKeywords(jd)
        text == Get(resume_data, "full_text", <<"">>)
        present == UNION {WordsIn(text[i]) : i \in DOMAIN text}
        matching == job_keywords \cap present
        missing == job_keywords \ present
        m == Cardinality(matching)
        n == Cardinality(job_keywords)
    IN  [score |-> KeywordMatchScore(m, n, importance),
         matching |-> matching, missing |-> missing]
LowKeywordScore == 60

LowScore == 70

\* lines 468-508 of _generate_suggestions: the suggestions on the four
\* sub-scores; a suggestion is a pair <<kind, detail>>
ScoreSuggestions(result, platform_rules) ==
    LET scores == result.detailed_scores
        rules == platform_rules.parsing_rules
    IN
        (IF scores.keyword_match < LowKeywordScore
            /\ result.keyword_match.missing_keywords # {}
         THEN <<<<"Add these keywords from the job description",
                  result.keyword_match.missing_keywords>>>>
         ELSE <<>>)
        \o (IF scores.file_type < LowScore
            THEN <<<<"Use a preferred file format", rules.file_preferences>>>>
            ELSE <<>>)
        \o (IF scores.formatting < LowScore
            THEN [i \in DOMAIN result.formatting_issues |->
                     <<"Fix formatting issue", result.formatting_issues[i]>>]
                 \o (IF Has(rules, "recommended_fonts")
                     THEN <<<<"Use ATS-friendly fonts", rules.recommended_fonts>>>>
                     ELSE <<>>)
            ELSE <<>>)
        \o (IF scores.structure < LowScore
            THEN [i \in DOMAIN result.structure_feedback |->
                     <<"Structure", result.structure_feedback[i]>>]
                 \o (IF Has(rules, "section_headings")
                     THEN <<<<"Use standard section headers in this order",
                              rules.section_headings>>>>
                     ELSE <<>>)
            ELSE <<>>)

GeneralSuggestion ==
    <<"Ensure your resume has clear section headings and concise bullet points.", "">>

ChronologicalSuggestion ==
    <<"Use a chronological format with your most recent experience first.", "">>

WellOptimized ==
    <<"Your resume appears to be well-optimized for ATS systems. Continue to tailor it for specific job descriptions.", "">>

\* suggestions without the general one
GenerateSuggestionsWithoutGeneral(result, platform_rules) ==
    LET suggestions ==
            ScoreSuggestions(result, platform_rules)
            \o (IF Get(platform_rules.parsing_rules, "preferred_format", None)
                      = "chronological"
                THEN <<ChronologicalSuggestion>> ELSE <<>>)
    IN  IF suggestions = <<>> THEN <<WellOptimized>> ELSE suggestions

\* _generate_suggestions
GenerateSuggestions(result, platform_rules) ==
    LET suggestions ==
            ScoreSuggestions(result, platform_rules)
            \o <<GeneralSuggestion>>
            \o (IF Get(platform_rules.parsing_rules, "preferred_format", None)
                      = "chronological"
                THEN <<ChronologicalSuggestion>> ELSE <<>>)
    IN  IF suggestions = <<>> THEN <<WellOptimized>> ELSE suggestions

\* the platform analyze_resume resolves to (lines 75-79), None when it
\* returns the error payload
ResolvePlatform(rules, ats_platform) ==
    IF ats_platform # None /\ ats_platform \in DOMAIN rules THEN ats_platform
    ELSE IF default_platform \in DOMAIN rules THEN default_platform
    ELSE None

\* the keys of detailed_scores
SubScores == {"keyword_match", "formatting", "structure", "file_type"}

\* weights that do not depend on the job description
WeightsFixed(with_jd) ==
    [keyword_match |-> 4, formatting |-> 3, structure |-> 2, file_type |-> 1]

\* the weights (lines 140-145), in tenths
Weights(with_jd) ==
    IF with_jd
    THEN [keyword_match |-> 4, formatting |-> 3, structure |-> 2, file_type |-> 1]
    ELSE [keyword_match |-> 0, formatting |-> 5, structure |-> 3, file_type |-> 2]

\* sum(weights.values())
WeightSum(with_jd) ==
    Weights(with_jd).keyword_match + Weights(with_jd).formatting
        + Weights(with_jd).structure + Weights(with_jd).file_type

\* the sub-scores <<keyword_match, formatting, structure, file_type>> with a
\* job description whose weighted sum is a half in exact arithmetic and
\* above it in binary floating point (66 * 0.4 is 26.400000000000002), so
\* that round() goes up where half-to-even goes down; for the other
\* sub-scores of the model the two agree
FloatSumAbove == {<<66, 85, 0, 66>>, <<66, 85, 20, 66>>}

\* a combination that wraps around at 100
WeightedScoreWrapped(scores, with_jd) ==
    ((Weights(with_jd).keyword_match * scores.keyword_match
     + Weights(with_jd).formatting * scores.formatting
     + Weights(with_jd).structure * scores.structure
     + Weights(with_jd).file_type * scores.file_type) \div 10) % 100

\* the weighted combination (lines 147-156): the sum is divided by the sum
\* of the weights only without a job description
WeightedScore(scores, with_jd) ==
    IF with_jd /\ <<scores.keyword_match, scores.formatting, scores.structure,
                    scores.file_type>> \in FloatSumAbove
    THEN (Weights(with_jd).keyword_match * scores.keyword_match
          + Weights(with_jd).formatting * scores.formatting
          + Weights(with_jd).structure * scores.structure
          + Weights(with_jd).file_type * scores.file_type) \div 10 + 1
    ELSE RoundHalfEven(Weights(with_jd).keyword_match * scores.keyword_match
                       + Weights(with_jd).formatting * scores.formatting
                       + Weights(with_jd).structure * scores.structure
                       + Weights(with_jd).file_type * scores.file_type,
                       IF with_jd THEN 10 ELSE WeightSum(with_jd))

\* the result dict of analyze_resume (lines 84-164) from the outcomes of
\* the four checks
AtsReport(platform_rules, formatting, structure, keyword, file_type, with_jd) ==
    LET scores == [keyword_match |-> keyword.score,
                   formatting |-> formatting.score,
                   structure |-> structure.score,
                   file_type |-> file_type]
        partial == [ats_platform |-> platform_rules.name,
                    compatibility_score |-> WeightedScore(scores, with_jd),
                    keyword_match |-> [score |-> keyword.score,
                                       matching_keywords |-> keyword.matching,
                                       missing_keywords |-> keyword.missing],
                    formatting_issues |-> formatting.issues,
                    structure_feedback |-> structure.feedback,
                    detailed_scores |-> scores]
    IN  [ats_platform |-> partial.ats_platform,
         compatibility_score |-> partial.compatibility_score,
         keyword_match |-> partial.keyword_match,
         formatting_issues |-> partial.formatting_issues,
         structure_feedback |-> partial.structure_feedback,
         improvement_suggestions |-> GenerateSuggestions(partial, platform_rules),
         detailed_scores |-> partial.detailed_scores]

\* the four checks of analyze_resume (lines 103-136) under the rules of
\* one platform
AtsChecks(platform_rules, pr, resume_data, jd) ==
    AtsReport(platform_rules,
              CheckFormatting(resume_data, pr.formatting_preferences),
              CheckStructure(resume_data, pr.preferred_format),
              IF Truthy(jd)
              THEN CheckKeywordMatch(resume_data, jd, pr.keywords_importance)
              ELSE [score |-> 0, matching |-> {}, missing |-> {}],
              CheckFileFormat(resume_data, pr.file_preferences),
              Truthy(jd))

\* ATSChecker.analyze_resume
AtsAnalyzeResume(rules, resume_data, jd, ats_platform) ==
    IF ResolvePlatform(rules, ats_platform) = None
    THEN [error |-> <<"ATS platform rules not available", "">>]
    ELSE AtsChecks(rules[ResolvePlatform(rules, ats_platform)],
                   rules[ResolvePlatform(rules, ats_platform)].parsing_rules,
                   resume_data, jd)

(***************************************************************************)
(* KeywordMatcher.  A similarity is a whole percentage; what the backend   *)
(* (sentence transformer or TF-IDF cosine) returns for two non-empty texts *)
(* is an input of the call, drawn from SimilarityValues.  Sorted lists of  *)
(* keywords are sets.                                                      *)
(***************************************************************************)
\* Python's None where a dict or a number is expected, and a present value
Nothing == [none |-> TRUE]

Some(v) == [some |-> v]

SimilarityValues == {0, 80}

\* KeywordMatcher.extract_keywords on one line of a resume or on a job
\* description (a str; None has no lower())
KmExtractKeywords(s) ==
    CASE s = "John Doe" -> {"doe", "john"}
      [] s = "john@x.com" -> {"john", "x.com"}
      [] s = "Cairo, Egypt" -> {"cairo", "egypt"}
      [] s = "Experience" -> {"experience"}
      [] s = "Engineer at Acme, Jan 2020 - Dec 2021" -> {"acme", "dec", "engineer", "jan"}
      [] s = "Built APIs." -> {"apis", "built"}
      [] s = "Skills" -> {"skills"}
      [] s = "python, sql" -> {"python", "sql"}
      [] s = "Education" -> {"education"}
      [] s = "Bachelor of Science at State University, 2019"
             -> {"bachelor", "science", "state", "university"}
      [] s = "Bachelor of Science" -> {"bachelor", "science"}
      [] s = "State University, 2015 - 2019" -> {"state", "university"}
      [] s = "Summary" -> {"summary"}
      [] s = "Backend developer." -> {"backend", "developer"}
      [] s = "Projects" -> {"projects"}
      [] s = "Resume analyzer in python" -> {"analyzer", "python", "resume"}
      [] s = "Certifications" -> {"certifications"}
      [] s = "AWS Certified Developer" -> {"aws", "certified", "developer"}
      [] s = "  Designed services" -> {"designed", "services"}
      [] s = "    Tuned queries" -> {"queries", "tuned"}
      [] s = "Limited text could be extracted from image-based PDF."
             -> {"extracted", "image-based", "limited", "pdf", "text"}
      [] s = "python sql java" -> {"java", "python", "sql"}
      [] s = "java docker" -> {"docker", "java"}
      [] s = LongJd -> {"acme", "bachelor", "engineer", "python", "science",
                        "sql", "university"}
      [] OTHER -> {}

\* the keywords and phrases of the model in the order of sorted()
KeywordOrder ==
    << "acme", "analyzer", "apis", "aws", "bachelor", "backend", "built",
       "cairo", "certifications", "certified", "dec", "designed", "developer",
       "docker", "doe", "education", "egypt", "engineer", "experience",
       "extracted", "image-based", "jan", "java", "john", "limited", "pdf",
       "projects", "python", "queries", "resume", "science", "services",
       "skills", "sql", "state", "summary", "text", "tuned", "university",
       "x.com" >>

\* sorted(list(S))
SortedList(S) == SelectSeq(KeywordOrder, LAMBDA w : w \in S)

\* s[:n]
Take(s, n) == SubSeq(s, 1, Min(n, Len(s)))

\* KeywordMatcher.__init__: available is SENTENCE_TRANSFORMERS_AVAILABLE,
\* load_raises whether SentenceTransformer(...) raises.  tfidf_vectorizer is
\* "none", "bigram" (line 39) or "plain" (lines 49 and 210)
KeywordMatcherInit(use_transformer, available, load_raises) ==
    IF use_transformer /\ available
    THEN IF load_raises
         THEN [use_transformer |-> FALSE, transformer_model |-> FALSE,
               tfidf_vectorizer |-> "plain"]
         ELSE [use_transformer |-> TRUE, transformer_model |-> TRUE,
               tfidf_vectorizer |-> "none"]
    ELSE [use_transformer |-> FALSE, transformer_model |-> FALSE,
          tfidf_vectorizer |-> "bigram"]

\* _calculate_semantic_similarity: 0 when either text is falsy, else what
\* the backend returns
SemanticSimilarity(text1_truthy, jd, backend) ==
    IF ~text1_truthy \/ ~Truthy(jd) THEN 0 ELSE backend

\* the cosines, in hundredths, the backend can return: the embeddings of a
\* sentence transformer can point apart, TF-IDF vectors have no negative
\* component
Cosines(use_transformer) ==
    IF use_transformer THEN {-20, 0, 80, 100} ELSE {0, 80, 100}

\* TfidfVectorizer(stop_words='english') finds no term in the job
\* description
NoTerms(jd) == jd \in {"", "   ", "the and"}

\* similarity * 100 (lines 200-220) for a non-empty resume text of the
\* model and a job description: a TF-IDF vector without terms is zero and
\* its cosine 0
BackendSimilarity(jd, use_transformer, cosine) ==
    IF ~use_transformer /\ NoTerms(jd) THEN 0 ELSE cosine

\* a matcher that gives up the sentence transformer when its backend raises
MatcherSwitchesOnFailure(m, text1_truthy, text2, raises) ==
    IF raises THEN [m EXCEPT !.use_transformer = FALSE] ELSE m

\* the matcher after _calculate_semantic_similarity: line 210 makes a
\* vectorizer when the TF-IDF branch finds none; whether the backend
\* raises, an exception is caught at line 216 or 223 and nothing is assigned
MatcherAfterSimilarity(m, text1_truthy, text2, raises) ==
    IF ~text1_truthy \/ ~Truthy(text2) THEN m
    ELSE IF m.use_transformer /\ m.transformer_model THEN m
    ELSE IF m.tfidf_vectorizer = "none"
    THEN [m EXCEPT !.tfidf_vectorizer = "plain"]
    ELSE m

\* what _calculate_semantic_similarity of matcher m returns for a resume
\* text that is not empty: 0.0 when the backend raises
MatcherSimilarity(m, jd, cosine, raises) ==
    IF raises THEN 0
    ELSE BackendSimilarity(jd, m.use_transformer /\ m.transformer_model, cosine)

\* a match_keywords that lists every job keyword as missing
MatchKeywordsAllMissing(resume_text, jd, backend) ==
    [skill_match_percentage |-> 0,
     semantic_similarity |-> 0,
     matching_keywords |->
         UNION {KmExtractKeywords(resume_text[i]) : i \in DOMAIN resume_text}
             \cap KmExtractKeywords(jd),
     missing_keywords |-> KmExtractKeywords(jd),
     resume_unique_keywords |->
         UNION {KmExtractKeywords(resume_text[i]) : i \in DOMAIN resume_text}
             \ KmExtractKeywords(jd)]

\* match_keywords; resume_text is a text of the model
MatchKeywords(resume_text, jd, backend) ==
    IF jd = None
    THEN [error |-> <<"Error in keyword matching: ",
                      "'NoneType' object has no attribute 'lower'">>,
          skill_match_percentage |-> 0,
          matching_keywords |-> {},
          missing_keywords |-> {}]
    ELSE
    LET job_keywords == KmExtractKeywords(jd)
        resume_keywords ==
            UNION {KmExtractKeywords(resume_text[i]) : i \in DOMAIN resume_text}
        common_keywords == resume_keywords \cap job_keywords
        semantic_similarity ==
            SemanticSimilarity(~IsEmptyText(resume_text), jd, backend)
        n == Max(1, Cardinality(job_keywords))
        c == Cardinality(common_keywords)
    IN  [skill_match_percentage |->
             RoundHalfEven(7 * semantic_similarity * n + 3 * 100 * c, 10 * n),
         semantic_similarity |-> semantic_similarity,
         matching_keywords |-> common_keywords,
         missing_keywords |-> job_keywords \ resume_keywords,
         resume_unique_keywords |-> resume_keywords \ job_keywords]

\* what the ranking of extract_key_requirements can return for a job
\* description: nothing for None (an exception is caught) and for a text
\* with no sentence longer than 10 characters, else ranked n-grams
RankedTerms(jd) ==
    CASE jd = "python sql java" -> {<<"java", "python", "python sql">>,
                                    <<"python", "sql", "java">>}
      [] jd = "java docker" -> {<<"docker", "java", "java docker">>}
      [] jd = LongJd -> {<<"sql", "university", "university sql">>,
                         <<"university sql", "university", "sql">>}
      [] OTHER -> {<<>>}

\* [req for req in s if req not in S]
Without(s, S) == SelectSeq(s, LAMBDA x : x \notin S)

\* list(dict.fromkeys(s)): the first occurrence of every element, in order
Dedup(s) ==
    LET F[i \in 0..Len(s)] ==
            IF i = 0 THEN <<>>
            ELSE IF s[i] \in SeqToSet(F[i - 1]) THEN F[i - 1]
            ELSE Append(F[i - 1], s[i])
    IN  F[Len(s)]

\* the three rankings behind extract_key_requirements: the KeyBERT model
\* and the TF-IDF over sentences of KeywordMatcher (the second runs when
\* keybert cannot be imported), and the word frequencies of KeywordExtractor
RankingPaths == {"keybert", "tfidf", "frequency"}

\* what KeyBERT can rank first for a job description: n-grams of one to
\* three words of the whole text, in an order the embedding model decides
KeyBertRanked(jd) ==
    CASE jd = "python sql java" ->
             {<<"python sql java", "python sql", "python", "sql java", "sql",
                "java">>,
              <<"java", "sql java", "python", "python sql java", "sql",
                "python sql">>}
      [] jd = "java docker" -> {<<"java docker", "docker", "java">>,
                                <<"java", "java docker", "docker">>}
      [] jd = LongJd ->
             {<<"engineer bachelor science", "acme engineer", "engineer",
                "bachelor science", "university", "science", "bachelor",
                "acme", "university sql", "acme engineer bachelor", "sql",
                "python">>,
              <<"python", "sql python", "university sql python", "sql",
                "engineer", "python acme engineer", "university", "acme",
                "bachelor", "science", "university sql", "python acme">>}
      [] OTHER -> {<<>>}

\* sorted(word_freq.items(), key=freq, reverse=True): the words of the job
\* description that are no stop words, most frequent first, equal counts in
\* the order of first occurrence
FrequencyRanked(jd) ==
    CASE jd = "python sql java" -> <<"python", "sql", "java">>
      [] jd = "java docker" -> <<"java", "docker">>
      [] jd = LongJd -> <<"university", "sql", "python", "acme", "engineer",
                          "bachelor", "science">>
      [] OTHER -> <<>>

\* the entries of common_skills found in the job description, in the order
\* of the list
CommonSkillsIn(jd) ==
    CASE jd = "python sql java" -> <<"python", "java", "sql">>
      [] jd = "java docker" -> <<"java", "docker">>
      [] jd = LongJd -> <<"python", "sql">>
      [] OTHER -> <<>>

\* the default of num_requirements
DefaultRequirements == 10

\* extract_key_requirements(job_description, num_requirements) on one of
\* the three rankings; ranked is what KeyBERT or the TF-IDF ranking gives.
\* KeywordExtractor lowers the text first, which None does not have.
ExtractKeyRequirements(jd, n, path, ranked) ==
    IF path = "frequency"
    THEN IF jd = None
         THEN Raise(<<"AttributeError",
                      "'NoneType' object has no attribute 'lower'">>)
         ELSE Ok(Take(Dedup(Take(FrequencyRanked(jd), n) \o CommonSkillsIn(jd)),
                      n))
    ELSE Ok(Take(ranked, n))

\* the cuts [:5] of lines 355 and 356
StrongLimit == 5

GapLimit == 5

\* analyze_skill_match.  backend gives the four similarities the call asks
\* for; requirements is what extract_key_requirements returned.  The
\* full_text of every resume_data of the model is non-empty, so lines
\* 311-318 are not taken.
AnalyzeSkillMatch(resume_data, jd, backend, requirements) ==
    LET match_results == MatchKeywords(resume_data.full_text, jd, backend.full)
        experience_match ==
            SemanticSimilarity(Get(resume_data, "experience", <<>>) # <<>>,
                               jd, backend.experience)
        education_match ==
            SemanticSimilarity(Get(resume_data, "education", <<>>) # <<>>,
                               jd, backend.education)
        skills_match ==
            SemanticSimilarity(Get(resume_data, "skills", {}) # {},
                               jd, backend.skills)
        strong_matches ==
            SeqToSet(Take(SortedList(match_results.matching_keywords),
                          StrongLimit))
    IN  [overall_match_percentage |->
             RoundHalfEven(45 * match_results.skill_match_percentage
                           + 25 * experience_match + 20 * skills_match
                           + 10 * education_match, 100),
         skill_match_percentage |-> match_results.skill_match_percentage,
         experience_match_percentage |-> experience_match,
         education_match_percentage |-> education_match,
         skills_match_percentage |-> skills_match,
         key_requirements |-> requirements,
         strong_matches |-> strong_matches,
         key_gaps |-> Take(Without(requirements, strong_matches), GapLimit),
         matching_keywords |-> match_results.matching_keywords,
         missing_keywords |-> match_results.missing_keywords,
         resume_unique_keywords |->
             Get(match_results, "resume_unique_keywords", {})]

(***************************************************************************)
(* FeedbackGenerator.  The report keeps the ATS part, the score of the     *)
(* keyword part and the two opening sentences of the summary; the lists of *)
(* strengths, weaknesses and recommendations built from the same inputs    *)
(* are left out.                                                           *)
(***************************************************************************)
GoodAtsScore == 80

FairAtsScore == 60

\* _generate_summary_feedback: the sentence on the ATS score and, with an
\* analysis, the sentence on the match score
SummaryFeedback(ats_analysis, keyword_analysis) ==
    LET ats_score == Get(ats_analysis, "compatibility_score", 0)
        match_score == IF keyword_analysis # Nothing
                       THEN keyword_analysis.some.overall_match_percentage ELSE 0
    IN  << IF ats_score >= GoodAtsScore THEN "well-optimized"
           ELSE IF ats_score >= FairAtsScore THEN "moderately optimized"
           ELSE "needs significant optimization",
           IF keyword_analysis = Nothing THEN ""
           ELSE IF match_score >= GoodAtsScore THEN "excellent alignment"
           ELSE IF match_score >= FairAtsScore THEN "decent alignment"
           ELSE "low alignment" >>

\* generate_comprehensive_feedback
GenerateComprehensiveFeedback(resume_data, ats_analysis, keyword_analysis) ==
    LET issues == Get(ats_analysis, "formatting_issues", <<>>)
                  \o Get(ats_analysis, "structure_feedback", <<>>)
    IN  [summary |-> SummaryFeedback(ats_analysis, keyword_analysis),
         ats_compatibility |->
             [score |-> Get(ats_analysis, "compatibility_score", 0),
              issues |-> IF issues = <<>>
                         THEN <<"No major ATS compatibility issues detected.">>
                         ELSE issues,
              recommendations |-> Get(ats_analysis, "improvement_suggestions", <<>>)],
         keyword_match |->
             [score |-> IF keyword_analysis # Nothing
                        THEN keyword_analysis.some.overall_match_percentage
                        ELSE 0]]

\* generate_section_feedback: whether each list section is there
GenerateSectionFeedback(resume_data) ==
    [experience |-> IF Get(resume_data, "experience", <<>>) = <<>>
                    THEN "Add your work experience section" ELSE "has entries",
     skills |-> IF Get(resume_data, "skills", {}) = {}
                THEN "Add a dedicated skills section" ELSE "has skills",
     education |-> IF Get(resume_data, "education", <<>>) = <<>>
                   THEN "Add your educational background" ELSE "has entries"]

(***************************************************************************)
(* The resumes of the model.                                               *)
(***************************************************************************)
Contact == <<"John Doe", "john@x.com", "555-123-4567">>

\* the resume of the specification's scenario: each entry follows its
\* header directly
ScenarioText ==
    Contact \o <<"", "Experience", "Engineer at Acme, Jan 2020 - Dec 2021",
                 "Built APIs.", "", "Skills", "python, sql", "", "Education",
                 "Bachelor of Science at State University, 2019">>

\* the same with a blank line after the experience header
LooseText ==
    Contact \o <<"", "Experience", "", "Engineer at Acme, Jan 2020 - Dec 2021",
                 "Built APIs.", "", "Skills", "python, sql", "", "Education",
                 "Bachelor of Science at State University, 2019">>

\* no section header at all
PlainText == <<"John Doe", "john@x.com", "python, sql">>

SkillsText == Contact \o <<"", "Skills", "python, sql">>

\* an education entry of one line, and one of two lines, after a blank line
EducationOneLineText ==
    Contact \o <<"", "Education", "",
                 "Bachelor of Science at State University, 2019">>

EducationTwoLineText ==
    Contact \o <<"", "Education", "", "Bachelor of Science",
                 "State University, 2015 - 2019">>

CertificationsText ==
    Contact \o <<"", "Certifications", "AWS Certified Developer">>

\* the five section headers with one entry each
FiveSectionText ==
    <<"John Doe", "john@x.com", "", "Summary", "Backend developer.", "",
      "Experience", "", "Engineer at Acme, Jan 2020 - Dec 2021", "Built APIs.",
      "", "Education", "", "Bachelor of Science",
      "State University, 2015 - 2019", "", "Skills", "python, sql", "",
      "Projects", "", "Resume analyzer in python">>

\* an experience and an education entry and no skills
ExperienceEducationText ==
    Contact \o <<"", "Experience", "", "Engineer at Acme, Jan 2020 - Dec 2021",
                 "Built APIs.", "", "Education", "", "Bachelor of Science",
                 "State University, 2015 - 2019">>

\* the five canonical sections with the skills before the experience
SkillsFirstText ==
    <<"John Doe", "john@x.com", "", "Summary", "Backend developer.", "",
      "Skills", "python, sql", "", "Experience", "",
      "Engineer at Acme, Jan 2020 - Dec 2021", "Built APIs.", "", "Education",
      "", "Bachelor of Science", "State University, 2015 - 2019">>

\* the same with the skills header as the first line of the text
SkillsTopText ==
    <<"Skills", "python, sql", "", "John Doe", "john@x.com", "", "Summary",
      "Backend developer.", "", "Experience", "",
      "Engineer at Acme, Jan 2020 - Dec 2021", "Built APIs.", "", "Education",
      "", "Bachelor of Science", "State University, 2015 - 2019">>

\* the experience header as the first line and the skills after it
ExperienceTopText ==
    <<"Experience", "", "Engineer at Acme, Jan 2020 - Dec 2021", "Built APIs.",
      "", "John Doe", "john@x.com", "", "Summary", "Backend developer.", "",
      "Skills", "python, sql", "", "Education", "", "Bachelor of Science",
      "State University, 2015 - 2019">>

Texts == {ScenarioText, LooseText, PlainText, SkillsText, EducationOneLineText,
          EducationTwoLineText, CertificationsText, FiveSectionText}

File(exists, ext, text, problematic) ==
    [exists |-> exists, ext |-> ext, text |-> text, problematic |-> problematic,
     scan |-> <<"">>, ocr |-> "open_fails"]

\* a one-page PDF: the text pdfplumber reads, the text OCR reads and how
\* the OCR pass ends
PdfFile(text, scan, ocr) ==
    [exists |-> TRUE, ext |-> ".pdf", text |-> text, problematic |-> TRUE,
     scan |-> scan, ocr |-> ocr]

\* a short text layer whose OCR pass fails or finds nothing, and scanned
\* pages without text layer whose OCR pass succeeds or fails at each step
PdfFiles ==
    {PdfFile(PlainText, <<"">>, "open_fails"),
     PdfFile(PlainText, <<"">>, "ok"),
     PdfFile(<<"">>, PlainText, "ok"),
     PdfFile(<<"">>, <<"">>, "open_fails"),
     PdfFile(<<"">>, PlainText, "render_fails"),
     PdfFile(<<"">>, PlainText, "ocr_raises")}

\* the files a call can name: every text as .txt, some as .pdf and .docx,
\* a file with no text, a missing path, and two other extensions
Files ==
    {File(TRUE, ".txt", t, FALSE) : t \in Texts}
    \cup {File(TRUE, ".pdf", ScenarioText, b) : b \in BOOLEAN}
    \cup {File(TRUE, ".docx", LooseText, FALSE),
          File(TRUE, ".txt", <<"">>, FALSE),
          File(FALSE, ".txt", <<"">>, FALSE),
          File(TRUE, ".doc", PlainText, FALSE),
          File(TRUE, ".rtf", PlainText, FALSE)}
    \cup PdfFiles

(***************************************************************************)
(* AnalyzerController.  One controller lives through the behaviour: its    *)
(* ATSChecker's rules, its ResumeParser's certifications_headers attribute *)
(* and whether spaCy loaded are fixed or change as below.  A call of       *)
(* analyze_resume advances stage by stage; pc is its position.             *)
(***************************************************************************)
VARIABLES matcher, ats_rules, certifications_headers, nlp, use_ocr, temp_dirs, pc,
          call, resume_data, ats_analysis, keyword_analysis, feedback, result,
          stages

vars == <<matcher, ats_rules, certifications_headers, nlp, use_ocr, temp_dirs, pc,
          call, resume_data, ats_analysis, keyword_analysis, feedback, result,
          stages>>

\* a local variable not yet assigned, and no call in progress
Unset == [unset |-> TRUE]

NoCall == [op |-> "none"]

ControllerExtensions == {".pdf", ".docx", ".doc", ".txt"}

\* a test that also takes "No text could be extracted from the resume" for a
\* message about OCR
MentionsOcrOrImageOrText(msg) ==
    msg[1] = "No text could be extracted from the resume"

\* "OCR" in error_msg or "image" in error_msg, for the messages
\* parse_resume builds
MentionsOcrOrImage(msg) ==
    CASE msg[1] = "File not found" -> FALSE
      [] msg[1] = "Unsupported file format: " -> FALSE
      [] msg[1] = "No text could be extracted from the resume" -> FALSE
      [] msg[1] = "Error parsing resume: " /\ msg[2] = AttributeErrorMsg -> FALSE
      [] msg[1] = "Error parsing resume: " /\ msg[2] = IndexErrorMsg -> FALSE

Init ==
    /\ \E how \in {"absent", "unreadable", "loaded"}, content \in RuleFiles :
           ats_rules = LoadRules(how, content)
    /\ matcher = KeywordMatcherInit(TRUE, FALSE, FALSE)
    /\ certifications_headers = FALSE
    /\ nlp \in BOOLEAN
    /\ use_ocr \in BOOLEAN
    /\ temp_dirs = {}
    /\ pc = "idle"
    /\ call = NoCall
    /\ resume_data = Unset
    /\ ats_analysis = Unset
    /\ keyword_analysis = Unset
    /\ feedback = Unset
    /\ result = Unset
    /\ stages = <<>>

\* analyze_resume up to the end of step 1 (lines 61-91)
AnalyzeResume(f, jd, platform) ==
    /\ pc = "idle"
    /\ call' = [op |-> "analyze_resume", file |-> f, job_description |-> jd,
                ats_platform |-> platform]
    /\ UNCHANGED <<matcher, ats_rules, nlp, use_ocr, ats_analysis, keyword_analysis,
                   feedback>>
    /\ IF ~f.exists
       THEN /\ result' = Ok([error |-> <<"Resume file not found", "">>])
            /\ pc' = "returned"
            /\ UNCHANGED <<certifications_headers, temp_dirs, resume_data,
                           stages>>
       ELSE IF f.ext \notin ControllerExtensions
       THEN /\ result' = Ok([error |-> <<"Unsupported file format: ", f.ext>>])
            /\ pc' = "returned"
            /\ UNCHANGED <<certifications_headers, temp_dirs, resume_data,
                           stages>>
       ELSE \E r \in {ParseResume(Extracted(f, use_ocr),
                                  certifications_headers, nlp)} :
                /\ certifications_headers' = r.cert
                /\ temp_dirs' = TempDirsAfter(f, use_ocr, temp_dirs)
                /\ stages' = <<"parse">>
                /\ IF ~Has(r.data, "error")
                   THEN /\ resume_data' = r.data
                        /\ pc' = "parsed"
                        /\ UNCHANGED result
                   ELSE IF MentionsOcrOrImage(r.data.error)
                   THEN /\ resume_data' =
                               [error |-> r.data.error,
                                full_text |-> <<"Limited text could be extracted from image-based PDF.">>,
                                ocr_limitation |-> TRUE]
                        /\ pc' = "parsed"
                        /\ UNCHANGED result
                   ELSE /\ resume_data' = r.data
                        /\ result' = Ok(r.data)
                        /\ pc' = "returned"

\* step 2 (lines 93-99)
AtsStage ==
    /\ pc = "parsed"
    /\ ats_analysis' = AtsAnalyzeResume(ats_rules, resume_data,
                                        call.job_description, call.ats_platform)
    /\ stages' = Append(stages, "ats")
    /\ pc' = "ats_done"
    /\ UNCHANGED <<matcher, ats_rules, certifications_headers, nlp, use_ocr, temp_dirs, call, resume_data,
                   keyword_analysis, feedback, result>>

\* step 3 without the test of job_description
MatchStageAlways ==
    /\ pc = "ats_done"
    /\ \E backend \in [{"full", "experience", "education", "skills"}
                        -> SimilarityValues],
          requirements \in RankedTerms(call.job_description) :
          /\ keyword_analysis' =
                 Some(AnalyzeSkillMatch(resume_data, call.job_description,
                                        backend, requirements))
          /\ stages' = Append(stages, "match")
    /\ pc' = "matched"
    /\ UNCHANGED <<matcher, ats_rules, certifications_headers, nlp, use_ocr, temp_dirs, call, resume_data,
                   ats_analysis, feedback, result>>

\* step 3 (lines 101-108)
MatchStage ==
    /\ pc = "ats_done"
    /\ IF Truthy(call.job_description)
       THEN \E backend \in [{"full", "experience", "education", "skills"}
                            -> SimilarityValues],
               requirements \in RankedTerms(call.job_description) :
               /\ keyword_analysis' =
                      Some(AnalyzeSkillMatch(resume_data, call.job_description,
                                             backend, requirements))
               /\ stages' = Append(stages, "match")
       ELSE /\ keyword_analysis' = Nothing
            /\ UNCHANGED stages
    /\ pc' = "matched"
    /\ UNCHANGED <<matcher, ats_rules, certifications_headers, nlp, use_ocr, temp_dirs, call, resume_data,
                   ats_analysis, feedback, result>>

\* keyword_analysis.get(key, 0) if keyword_analysis else None
MatchScore(analysis, key) ==
    IF analysis = Nothing THEN Nothing ELSE Some(Get(analysis.some, key, 0))

\* lines 138-142: the summary is prefixed and a notice added
WithOcrNotice(fb, ocr) ==
    [summary |-> IF ocr THEN <<"LIMITED OCR: ">> \o fb.summary ELSE fb.summary,
     ats_compatibility |-> fb.ats_compatibility,
     keyword_match |-> fb.keyword_match,
     ocr_notice |-> ocr]

\* steps 4 to 6 and the return (lines 110-145)
FeedbackStage ==
    /\ pc = "matched"
    /\ LET ocr == Get(resume_data, "ocr_limitation", FALSE)
           fb == WithOcrNotice(
                     GenerateComprehensiveFeedback(resume_data, ats_analysis,
                                                   keyword_analysis), ocr)
           combined ==
               [resume_data |-> resume_data,
                ats_analysis |-> ats_analysis,
                keyword_analysis |-> keyword_analysis,
                feedback |-> fb,
                section_feedback |-> GenerateSectionFeedback(resume_data),
                scores |->
                    [ats_compatibility |-> Get(ats_analysis, "compatibility_score", 0),
                     overall_match |->
                         MatchScore(keyword_analysis, "overall_match_percentage"),
                     skills_match |->
                         MatchScore(keyword_analysis, "skills_match_percentage"),
                     experience_match |->
                         MatchScore(keyword_analysis, "experience_match_percentage"),
                     education_match |->
                         MatchScore(keyword_analysis, "education_match_percentage")],
                ocr_used |-> ocr]
       IN  /\ feedback' = fb
           /\ result' = Ok(combined)
    /\ stages' = Append(stages, "feedback")
    /\ pc' = "returned"
    /\ UNCHANGED <<matcher, ats_rules, certifications_headers, nlp, use_ocr, temp_dirs, call, resume_data,
                   ats_analysis, keyword_analysis>>

\* the caller takes the returned value or the exception; the locals of the
\* call are gone
Return ==
    /\ pc = "returned"
    /\ pc' = "idle"
    /\ call' = NoCall
    /\ resume_data' = Unset
    /\ ats_analysis' = Unset
    /\ keyword_analysis' = Unset
    /\ feedback' = Unset
    /\ result' = Unset
    /\ stages' = <<>>
    /\ UNCHANGED <<matcher, ats_rules, certifications_headers, nlp, use_ocr, temp_dirs>>

\* the parsed resumes a direct call of the matcher is given
MatcherFiles == {File(TRUE, ".txt", LooseText, FALSE),
                 File(TRUE, ".txt", PlainText, FALSE),
                 File(TRUE, ".txt", ExperienceEducationText, FALSE)}

\* KeywordMatcher.analyze_skill_match called on its own
SkillMatch(f, jd) ==
    /\ pc = "idle"
    /\ \E backend \in [{"full", "experience", "education", "skills"}
                       -> SimilarityValues],
          requirements \in RankedTerms(jd),
          data \in {ParseResume(f, TRUE, nlp).data} :
              /\ call' = [op |-> "analyze_skill_match", resume_data |-> data,
                          job_description |-> jd, backend |-> backend]
              /\ result' = Ok(AnalyzeSkillMatch(data, jd, backend, requirements))
    /\ pc' = "returned"
    /\ UNCHANGED <<matcher, ats_rules, certifications_headers, nlp, use_ocr, temp_dirs, resume_data,
                   ats_analysis, keyword_analysis, feedback, stages>>

\* the resume texts a direct call of match_keywords is given
MatcherTexts == {LooseText, PlainText, <<"">>}

\* KeywordMatcher.match_keywords called on its own
MatchKeywordsCall(resume_text, jd, backend) ==
    /\ pc = "idle"
    /\ call' = [op |-> "match_keywords", resume_text |-> resume_text,
                job_description |-> jd, backend |-> backend]
    /\ result' = Ok(MatchKeywords(resume_text, jd, backend))
    /\ pc' = "returned"
    /\ UNCHANGED <<matcher, ats_rules, certifications_headers, nlp, use_ocr, temp_dirs,
                   resume_data, ats_analysis, keyword_analysis, feedback,
                   stages>>

\* KeywordMatcher._calculate_semantic_similarity called on its own
SimilarityCall(text1, text2, use_transformer, cosine) ==
    /\ pc = "idle"
    /\ call' = [op |-> "_calculate_semantic_similarity", text1 |-> text1,
                text2 |-> text2, use_transformer |-> use_transformer,
                cosine |-> cosine]
    /\ result' = Ok(SemanticSimilarity(~IsEmptyText(text1), text2,
                        BackendSimilarity(text2, use_transformer, cosine)))
    /\ pc' = "returned"
    /\ UNCHANGED <<matcher, ats_rules, certifications_headers, nlp, use_ocr, temp_dirs,
                   resume_data, ats_analysis, keyword_analysis, feedback,
                   stages>>

\* the parsed resumes and the preferred formats a direct call of
\* _check_structure is given
StructureFiles == {File(TRUE, ".txt", FiveSectionText, FALSE),
                   File(TRUE, ".txt", SkillsFirstText, FALSE),
                   File(TRUE, ".txt", SkillsTopText, FALSE),
                   File(TRUE, ".txt", ExperienceTopText, FALSE),
                   File(TRUE, ".txt", LooseText, FALSE),
                   File(TRUE, ".txt", PlainText, FALSE)}

PreferredFormats == {"chronological", "hybrid", "functional"}

\* ATSChecker._check_structure called on its own
CheckStructureCall(f, preferred_format) ==
    /\ pc = "idle"
    /\ \E data \in {ParseResume(f, TRUE, nlp).data} :
           /\ call' = [op |-> "_check_structure", resume_data |-> data,
                       preferred_format |-> preferred_format]
           /\ result' = Ok(CheckStructure(data, preferred_format))
    /\ pc' = "returned"
    /\ UNCHANGED <<matcher, ats_rules, certifications_headers, nlp, use_ocr, temp_dirs,
                   resume_data, ats_analysis, keyword_analysis, feedback,
                   stages>>

\* the texts of the pages of a PDF, and the PDFs of one to MaxPages pages
DocPages ==
    << <<"John Doe", "john@x.com">>, <<"Skills", "python, sql">>,
       <<"Education", "Bachelor of Science">>,
       <<"Projects", "Resume analyzer in python">> >>

MaxPages == 3

\* text += page_text + "\n" for the first count pages, as lines without the
\* empty one after the last "\n"
PagesRead(pages, count) ==
    LET F[i \in 0..count] ==
            IF i = 0 THEN <<>> ELSE F[i - 1] \o pages[i]
    IN  F[count]

\* the pages a reader adds to text before the exception that ends its loop:
\* fails_at is 0 when opening the PDF raises, k when extract_text of page k
\* raises, and more than the number of pages when nothing raises
PagesBefore(pages, fails_at) ==
    IF fails_at > Len(pages) THEN Len(pages) ELSE Max(0, fails_at - 1)

\* lines 181-200 of _extract_text_from_pdf: pdfplumber adds page after page
\* to text; when it raises, PyPDF2 goes on adding to the same text
PdfPagesText(pages, plumber_fails_at, pypdf_fails_at) ==
    PagesRead(pages, PagesBefore(pages, plumber_fails_at))
    \o (IF plumber_fails_at > Len(pages) THEN <<>>
        ELSE PagesRead(pages, PagesBefore(pages, pypdf_fails_at)))
    \o <<"">>

\* what OCR reads from the rendered pages: page_text + "\n\n" for each,
\* without the two line ends after the last
ScanOf(pages) ==
    LET F[i \in 1..Len(pages)] ==
            IF i = 1 THEN pages[1] ELSE F[i - 1] \o <<"">> \o pages[i]
    IN  F[Len(pages)]

\* ResumeParser._extract_text_from_pdf called on its own
ExtractTextFromPdf(pages, plumber_fails_at, pypdf_fails_at, ocr) ==
    /\ pc = "idle"
    /\ \E f \in {PdfFile(PdfPagesText(pages, plumber_fails_at, pypdf_fails_at),
                          ScanOf(pages), ocr)} :
           /\ call' = [op |-> "_extract_text_from_pdf", pages |-> pages,
                       plumber_fails_at |-> plumber_fails_at,
                       pypdf_fails_at |-> pypdf_fails_at, ocr |-> ocr]
           /\ result' = Ok(Extracted(f, use_ocr).text)
           /\ temp_dirs' = TempDirsAfter(f, use_ocr, temp_dirs)
    /\ pc' = "returned"
    /\ UNCHANGED <<matcher, ats_rules, certifications_headers, nlp, use_ocr,
                   resume_data, ats_analysis, keyword_analysis, feedback,
                   stages>>

\* NLPFacade.__init__: the simplified processor is made only when loading
\* the spaCy model raises
NLPFacadeInit(load_raises) ==
    [is_spacy |-> ~load_raises, impl |-> load_raises]

\* the operations of the facade, and how the spaCy call inside one ends;
\* "zero_norm" is a document without vector norm in calculate_similarity
FacadeOps == {"extract_entities", "extract_keywords", "get_noun_phrases",
              "calculate_similarity"}

SpacyOutcomes(op) ==
    IF op = "calculate_similarity" THEN {"ok", "raises", "zero_norm"}
    ELSE {"ok", "raises"}

\* the method of the simplified processor the operation falls back to
ImplMethod(op) ==
    IF op = "calculate_similarity" THEN "cosine_similarity" ELSE op

\* self._impl.<method>(...): _impl is None when the spaCy model was loaded
CallImpl(facade, op) ==
    IF facade.impl THEN Ok([by |-> "simplified"])
    ELSE Raise(<<"AttributeError",
                 "'NoneType' object has no attribute ", ImplMethod(op)>>)

\* extract_entities, extract_keywords, get_noun_phrases and
\* calculate_similarity have the same shape: the spaCy branch in a try
\* whose handler, like the zero-norm case, calls the simplified processor
FacadeResult(facade, op, outcome) ==
    IF facade.is_spacy
    THEN IF outcome = "ok" THEN Ok([by |-> "spacy"]) ELSE CallImpl(facade, op)
    ELSE CallImpl(facade, op)

\* an operation of a constructed NLPFacade
FacadeCall(load_raises, op, outcome) ==
    /\ pc = "idle"
    /\ call' = [op |-> op, facade |-> NLPFacadeInit(load_raises),
                outcome |-> outcome]
    /\ result' = FacadeResult(NLPFacadeInit(load_raises), op, outcome)
    /\ pc' = "returned"
    /\ UNCHANGED <<matcher, ats_rules, certifications_headers, nlp, use_ocr,
                   temp_dirs, resume_data, ats_analysis, keyword_analysis,
                   feedback, stages>>

\* the values of num_requirements
RequirementCounts == {1, 2, DefaultRequirements}

\* extract_key_requirements called on its own
KeyRequirementsCall(jd, n, path, ranked) ==
    /\ pc = "idle"
    /\ call' = [op |-> "extract_key_requirements", job_description |-> jd,
                num_requirements |-> n, path |-> path]
    /\ result' = ExtractKeyRequirements(jd, n, path, ranked)
    /\ pc' = "returned"
    /\ UNCHANGED <<matcher, ats_rules, certifications_headers, nlp, use_ocr, temp_dirs,
                   resume_data, ats_analysis, keyword_analysis, feedback,
                   stages>>

MaxBatch == 2

PoolSize == 4

BatchFiles == {File(TRUE, ".txt", LooseText, FALSE),
               File(FALSE, ".txt", <<"">>, FALSE)}

\* the lists of at most MaxBatch paths
BatchPaths == UNION {[1..n -> BatchFiles] : n \in 0..MaxBatch}

\* whether pickle can send analyze_worker, a function defined inside
\* batch_analyze_resumes, to a worker process
PicklableWorker == FALSE

\* batch_analyze_resumes: Pool(processes) raises ValueError below one
\* process, and pool.map pickles the worker function
BatchAnalyze(paths, jd, platform) ==
    /\ pc = "idle"
    /\ call' = [op |-> "batch_analyze_resumes", resume_file_paths |-> paths,
                job_description |-> jd, ats_platform |-> platform]
    /\ result' = IF Min(PoolSize, Len(paths)) < 1
                 THEN Raise(<<"ValueError",
                              "Number of processes must be at least 1">>)
                 ELSE IF ~PicklableWorker
                 THEN Raise(<<"AttributeError",
                              "Can't pickle local object 'AnalyzerController.batch_analyze_resumes.<locals>.analyze_worker'">>)
                 ELSE Ok([i \in DOMAIN paths |-> [file_path |-> paths[i]]])
    /\ pc' = "returned"
    /\ UNCHANGED <<matcher, ats_rules, certifications_headers, nlp, use_ocr, temp_dirs, resume_data,
                   ats_analysis, keyword_analysis, feedback, stages>>

Next ==
    \/ \E f \in Files, jd \in JobDescriptions, platform \in Platforms :
           AnalyzeResume(f, jd, platform)
    \/ AtsStage
    \/ MatchStage
    \/ FeedbackStage
    \/ Return
    \/ \E f \in MatcherFiles, jd \in MatcherJobDescriptions : SkillMatch(f, jd)
    \/ \E resume_text \in MatcherTexts, jd \in MatcherJobDescriptions,
          backend \in SimilarityValues :
           MatchKeywordsCall(resume_text, jd, backend)
    \/ \E text1 \in MatcherTexts, text2 \in MatcherJobDescriptions,
          use_transformer \in BOOLEAN :
           \E cosine \in Cosines(use_transformer) :
               SimilarityCall(text1, text2, use_transformer, cosine)
    \/ \E f \in StructureFiles, preferred_format \in PreferredFormats :
           CheckStructureCall(f, preferred_format)
    \/ \E n \in 1..Min(MaxPages, Len(DocPages)),
          ocr \in {"ok", "open_fails"} :
           \E plumber_fails_at \in 0..(n + 1), pypdf_fails_at \in 0..(n + 1) :
               ExtractTextFromPdf(SubSeq(DocPages, 1, n), plumber_fails_at,
                                  pypdf_fails_at, ocr)
    \/ \E load_raises \in BOOLEAN, op \in FacadeOps :
           \E outcome \in SpacyOutcomes(op) :
               FacadeCall(load_raises, op, outcome)
    \/ \E jd \in MatcherJobDescriptions, n \in RequirementCounts,
          path \in RankingPaths :
           \E ranked \in IF path = "keybert" THEN KeyBertRanked(jd)
                          ELSE RankedTerms(jd) :
               KeyRequirementsCall(jd, n, path, ranked)
    \/ \E paths \in BatchPaths, jd \in JobDescriptions, platform \in Platforms :
           BatchAnalyze(paths, jd, platform)

Spec == Init /\ [][Next]_vars

(***************************************************************************)
(* The combination of the sub-scores on its own: lines 138-156 of          *)
(* ATSChecker.analyze_resume applied to four sub-scores drawn from         *)
(* ScoreValues, with and without a job description.                        *)
(***************************************************************************)
ScoreValues == {0, 20, 50, 66, 85, 100}

ScoreInit ==
    /\ matcher = KeywordMatcherInit(TRUE, FALSE, FALSE)
    /\ ats_rules = DefaultRules
    /\ certifications_headers = FALSE
    /\ nlp = FALSE
    /\ use_ocr = TRUE
    /\ temp_dirs = {}
    /\ pc = "idle"
    /\ call = NoCall
    /\ resume_data = Unset
    /\ ats_analysis = Unset
    /\ keyword_analysis = Unset
    /\ feedback = Unset
    /\ result = Unset
    /\ stages = <<>>

CombineScores(scores, with_jd) ==
    /\ pc = "idle"
    /\ call' = [op |-> "combine_scores", detailed_scores |-> scores,
                with_jd |-> with_jd]
    /\ result' = Ok(WeightedScore(scores, with_jd))
    /\ pc' = "returned"
    /\ UNCHANGED <<matcher, ats_rules, certifications_headers, nlp, use_ocr, temp_dirs, resume_data,
                   ats_analysis, keyword_analysis, feedback, stages>>

\* the platform rules and, with findings, the missing keywords, formatting
\* issues and structure feedback a direct call of _generate_suggestions is
\* given
SuggestionRules == {DefaultRules["taleo"], FileTaleo, FileWorkday}

AnalysisResult(scores, findings) ==
    [detailed_scores |-> scores,
     keyword_match |-> [missing_keywords |->
                            IF findings THEN {"java"} ELSE {}],
     formatting_issues |->
         IF findings
         THEN <<"Lacks bullet points for better readability and parsing">>
         ELSE <<>>,
     structure_feedback |->
         IF findings THEN <<"Missing skills section">> ELSE <<>>]

\* ATSChecker._generate_suggestions called on its own
SuggestionsCall(scores, findings, platform_rules) ==
    /\ pc = "idle"
    /\ call' = [op |-> "_generate_suggestions",
                analysis_result |-> AnalysisResult(scores, findings),
                platform_rules |-> platform_rules]
    /\ result' = Ok(GenerateSuggestions(AnalysisResult(scores, findings),
                                        platform_rules))
    /\ pc' = "returned"
    /\ UNCHANGED <<matcher, ats_rules, certifications_headers, nlp, use_ocr,
                   temp_dirs, resume_data, ats_analysis, keyword_analysis,
                   feedback, stages>>

\* the numbers of job keywords and the importance tiers
MaxKeywords == 12

ImportanceTiers == {"high", "medium", "low"}

\* lines 358-377 of _check_keyword_match applied to matching found keywords
\* out of total job keywords
ScoreKeywords(matching, total, importance) ==
    /\ pc = "idle"
    /\ call' = [op |-> "keyword_match_score", matching |-> matching,
                total |-> total, keyword_importance |-> importance]
    /\ result' = Ok(KeywordMatchScore(matching, total, importance))
    /\ pc' = "returned"
    /\ UNCHANGED <<matcher, ats_rules, certifications_headers, nlp, use_ocr,
                   temp_dirs, resume_data, ats_analysis, keyword_analysis,
                   feedback, stages>>

ScoreNext ==
    \/ \E scores \in [SubScores -> ScoreValues], with_jd \in BOOLEAN :
           CombineScores(scores, with_jd)
    \/ \E total \in 0..MaxKeywords, importance \in ImportanceTiers :
           \E matching \in 0..total : ScoreKeywords(matching, total, importance)
    \/ \E scores \in [SubScores -> ScoreValues], findings \in BOOLEAN,
          platform_rules \in SuggestionRules :
           SuggestionsCall(scores, findings, platform_rules)
    \/ Return

ScoreSpec == ScoreInit /\ [][ScoreNext]_vars

(***************************************************************************)
(* One KeywordMatcher through a sequence of calls.  matcher holds its      *)
(* use_transformer, whether transformer_model is set, and which            *)
(* tfidf_vectorizer it has; each call says whether its backend raises.     *)
(***************************************************************************)
MatcherInit ==
    /\ \E use_transformer \in BOOLEAN, available \in BOOLEAN,
          load_raises \in BOOLEAN :
           matcher = KeywordMatcherInit(use_transformer, available, load_raises)
    /\ ats_rules = DefaultRules
    /\ certifications_headers = FALSE
    /\ nlp = FALSE
    /\ use_ocr = TRUE
    /\ temp_dirs = {}
    /\ pc = "idle"
    /\ call = NoCall
    /\ resume_data = Unset
    /\ ats_analysis = Unset
    /\ keyword_analysis = Unset
    /\ feedback = Unset
    /\ result = Unset
    /\ stages = <<>>

\* matcher._calculate_semantic_similarity(text1, text2)
SimilarityOn(text1, text2, cosine, raises) ==
    /\ pc = "idle"
    /\ call' = [op |-> "_calculate_semantic_similarity", text1 |-> text1,
                text2 |-> text2, cosine |-> cosine, raises |-> raises]
    /\ result' = Ok(SemanticSimilarity(~IsEmptyText(text1), text2,
                        MatcherSimilarity(matcher, text2, cosine, raises)))
    /\ matcher' = MatcherAfterSimilarity(matcher, ~IsEmptyText(text1), text2,
                                         raises)
    /\ pc' = "returned"
    /\ UNCHANGED <<ats_rules, certifications_headers, nlp, use_ocr, temp_dirs,
                   resume_data, ats_analysis, keyword_analysis, feedback,
                   stages>>

\* matcher.match_keywords(resume_text, job_description); extract_keywords
\* raises on None before the similarity is asked for
MatchKeywordsOn(resume_text, jd, cosine, raises) ==
    /\ pc = "idle"
    /\ call' = [op |-> "match_keywords", resume_text |-> resume_text,
                job_description |-> jd, cosine |-> cosine, raises |-> raises]
    /\ result' = Ok(MatchKeywords(resume_text, jd,
                        MatcherSimilarity(matcher, jd, cosine, raises)))
    /\ matcher' = MatcherAfterSimilarity(matcher, ~IsEmptyText(resume_text),
                                         jd, raises)
    /\ pc' = "returned"
    /\ UNCHANGED <<ats_rules, certifications_headers, nlp, use_ocr, temp_dirs,
                   resume_data, ats_analysis, keyword_analysis, feedback,
                   stages>>

\* matcher.analyze_skill_match(resume_data, job_description): four
\* similarities, those of the texts in failing with a backend that raises
SkillMatchOn(f, jd, cosines, failing) ==
    /\ pc = "idle"
    /\ \E requirements \in RankedTerms(jd),
          data \in {ParseResume(f, TRUE, nlp).data},
          backend \in {[k \in DOMAIN cosines |->
                           MatcherSimilarity(matcher, jd, cosines[k],
                                             k \in failing)]} :
              /\ call' = [op |-> "analyze_skill_match", resume_data |-> data,
                          job_description |-> jd, backend |-> backend,
                          raises |-> failing # {}]
              /\ result' = Ok(AnalyzeSkillMatch(data, jd, backend, requirements))
    /\ matcher' = MatcherAfterSimilarity(matcher, TRUE, jd, failing # {})
    /\ pc' = "returned"
    /\ UNCHANGED <<ats_rules, certifications_headers, nlp, use_ocr, temp_dirs,
                   resume_data, ats_analysis, keyword_analysis, feedback,
                   stages>>

MatcherNext ==
    \/ \E text1 \in MatcherTexts, text2 \in MatcherJobDescriptions,
          cosine \in Cosines(matcher.use_transformer), raises \in BOOLEAN :
           SimilarityOn(text1, text2, cosine, raises)
    \/ \E resume_text \in MatcherTexts, jd \in MatcherJobDescriptions,
          cosine \in SimilarityValues, raises \in BOOLEAN :
           MatchKeywordsOn(resume_text, jd, cosine, raises)
    \/ \E f \in MatcherFiles, jd \in MatcherJobDescriptions,
          cosines \in [{"full", "experience", "education", "skills"}
                       -> SimilarityValues],
          failing \in SUBSET {"full", "experience", "education", "skills"} :
           SkillMatchOn(f, jd, cosines, failing)
    \/ Return

MatcherSpec == MatcherInit /\ [][MatcherNext]_vars

(***************************************************************************)
(* The claims.                                                             *)
(***************************************************************************)
\* a call of analyze_resume is in progress and its parse stage has returned
Parsed == call.op = "analyze_resume" /\ stages # <<>>

ParseFailed == Parsed /\ Has(resume_data, "error")

ParseSucceeded == Parsed /\ ~Has(resume_data, "error")

\* C1: whatever ATSChecker.analyze_resume returns carries an integer
\* compatibility_score in 0..100 and four detailed sub-scores in 0..100
C1_ScoresInRange ==
    ats_analysis # Unset =>
        /\ Has(ats_analysis, "compatibility_score")
        /\ ats_analysis.compatibility_score \in 0..100
        /\ Has(ats_analysis, "detailed_scores")
        /\ \A k \in SubScores : ats_analysis.detailed_scores[k] \in 0..100

\* C2: parse_resume returns no error payload for a file whose text is not
\* empty, whatever the parser has parsed before, and first of all on a new
\* parser
C2_NoErrorReturn ==
    (Parsed /\ call.file.ext \in ParsedExtensions
            /\ ~IsBlankText(Extracted(call.file, use_ocr).text))
        => ~Has(resume_data, "error")

\* C3: every record parse_resume returns for the scenario text, whose
\* experience entry follows its header directly, has the email john@x.com,
\* the skills python and sql, and exactly one experience entry, dated
\* Jan 2020 - Dec 2021
C3_ScenarioExtraction ==
    (ParseSucceeded /\ call.file.text = ScenarioText) =>
        /\ resume_data.contact_info.email = "john@x.com"
        /\ {"python", "sql"} \subseteq resume_data.skills
        /\ Len(resume_data.experience) = 1
        /\ resume_data.experience[1].date_range = "Jan 2020 - Dec 2021"

\* C4: after every history of parse_resume calls, parsing a file gives what
\* a new parser gives for it
C4_PureFunctionOfText ==
    \A f \in Files :
        ParseResume(f, certifications_headers, nlp).data
            = ParseResume(f, FALSE, nlp).data

C6_NoExceptionEscapes ==
    (pc = "returned"
     /\ call.op \in {"analyze_resume", "batch_analyze_resumes"}) => result.ok

\* C7: whatever rules were loaded and whatever platform is named,
\* ATSChecker.analyze_resume returns a report with a compatibility_score and
\* no error payload, and a platform that is absent or unknown gets the
\* built-in default platform
C7_PlatformResolutionSucceeds ==
    ats_analysis # Unset =>
        /\ ~Has(ats_analysis, "error")
        /\ Has(ats_analysis, "compatibility_score")
        /\ call.ats_platform \notin DOMAIN ats_rules
               => ats_analysis.ats_platform = DefaultRules[default_platform].name

\* C8: analyze_skill_match called with an empty or absent job description
\* returns a value that is no match report: it holds no percentage
C8_NotPerformedSentinel ==
    (pc = "returned" /\ call.op = "analyze_skill_match"
     /\ ~Truthy(call.job_description)) =>
        /\ result.ok
        /\ ~Has(result.value, "overall_match_percentage")
        /\ ~Has(result.value, "skill_match_percentage")

\* C9: the stages of a call run in the order parse, ATS, match, feedback;
\* after a successful parse no later step is taken before the ATS stage; the match stage has run exactly when the job
\* description is a non-empty string; when it has not, keyword_analysis is
\* None and so are the four match scores of the result
C9_StageOrder ==
    /\ stages \in {<<>>, <<"parse">>, <<"parse", "ats">>,
                   <<"parse", "ats", "match">>,
                   <<"parse", "ats", "feedback">>,
                   <<"parse", "ats", "match", "feedback">>}
    /\ (ParseSucceeded /\ pc # "parsed") =>
           (Len(stages) >= 2 /\ stages[2] = "ats")
    /\ (Parsed /\ pc \in {"matched", "returned"} /\ ParseSucceeded) =>
           /\ ("match" \in SeqToSet(stages)) <=> Truthy(call.job_description)
           /\ "match" \notin SeqToSet(stages) => keyword_analysis = Nothing
    /\ (ParseSucceeded /\ pc = "returned"
        /\ "match" \notin SeqToSet(stages)) =>
           /\ result.value.keyword_analysis = Nothing
           /\ \A k \in {"overall_match", "skills_match", "experience_match",
                        "education_match"} : result.value.scores[k] = Nothing

\* a call without job description has returned with no match stage
C9_Witness ==
    /\ pc = "returned"
    /\ stages = <<"parse", "ats", "feedback">>
    /\ call.job_description = ""
    /\ result.value.keyword_analysis = Nothing
    /\ result.value.scores.overall_match = Nothing

\* C10: with a job description that is empty or only whitespace,
\* ATSChecker.analyze_resume returns what it returns for None, and
\* the controller runs no match stage
C10_BlankJobDescriptionIsNone ==
    (Parsed /\ call.job_description \in {"", "   "}) =>
        /\ ats_analysis # Unset =>
               ats_analysis = AtsAnalyzeResume(ats_rules, resume_data, None,
                                               call.ats_platform)
        /\ "match" \notin SeqToSet(stages)

\* C11: ATSChecker.analyze_resume returns the same value for the job
\* descriptions None and "", for every parsed resume, every set of loaded
\* rules and every platform; what the ATS stage stored for either of them is
\* that value
C11_EmptyStringIsAbsent ==
    (Parsed /\ pc = "ats_done") =>
        /\ \A platform \in Platforms :
               AtsAnalyzeResume(ats_rules, resume_data, "", platform)
                   = AtsAnalyzeResume(ats_rules, resume_data, None, platform)
        /\ call.job_description \in {None, ""} =>
               /\ ats_analysis = AtsAnalyzeResume(ats_rules, resume_data, "",
                                                  call.ats_platform)
               /\ ats_analysis = AtsAnalyzeResume(ats_rules, resume_data, None,
                                                  call.ats_platform)

\* the ATS stage has scored a resume under the job description ""
C11_Witness ==
    /\ pc = "ats_done"
    /\ call.job_description = ""
    /\ Has(ats_analysis, "compatibility_score")
    /\ ats_analysis.keyword_match.score = 0

\* C12: raising one sub-score and keeping the other three never lowers the
\* rounded compatibility_score, with and without a job description
C12_MonotoneInEachSubScore ==
    (pc = "returned" /\ call.op = "combine_scores") =>
        \A k \in SubScores, v \in ScoreValues :
            v >= call.detailed_scores[k] =>
                WeightedScore([call.detailed_scores EXCEPT ![k] = v],
                              call.with_jd) >= result.value

\* a combination whose exact sum is a half and is rounded up, and which a
\* higher structure score leaves above it
C12_Witness ==
    /\ pc = "returned" /\ call.op = "combine_scores" /\ call.with_jd
    /\ call.detailed_scores = [keyword_match |-> 66, formatting |-> 85,
                               structure |-> 0, file_type |-> 66]
    /\ result.value = 59
    /\ WeightedScore([call.detailed_scores EXCEPT !.structure = 20], TRUE) = 63

\* C13: the weights are 0.4, 0.3, 0.2 and 0.1 with a job description and
\* sum to one; without one the weight of keyword_match is 0 and the other
\* three, divided by their sum, sum to one: equal sub-scores combine to
\* that same score in both modes, and without a job description the
\* keyword_match sub-score does not change compatibility_score
C13_WeightsSumToOne ==
    (pc = "returned" /\ call.op = "combine_scores") =>
        /\ Weights(TRUE) = [keyword_match |-> 4, formatting |-> 3,
                            structure |-> 2, file_type |-> 1]
        /\ WeightSum(TRUE) = 10
        /\ Weights(FALSE).keyword_match = 0
        /\ WeightSum(FALSE) = 10
        /\ (\A k \in SubScores :
                k # "keyword_match" =>
                    call.detailed_scores[k] = call.detailed_scores.formatting)
            /\ (~call.with_jd
                \/ call.detailed_scores.keyword_match
                       = call.detailed_scores.formatting)
            => result.value = call.detailed_scores.formatting
        /\ ~call.with_jd =>
               \A v \in ScoreValues :
                   WeightedScore([call.detailed_scores
                                     EXCEPT !.keyword_match = v], FALSE)
                       = result.value

\* without a job description a full keyword_match sub-score next to three
\* sub-scores of 0 has combined to 0
C13_Witness ==
    /\ pc = "returned" /\ call.op = "combine_scores" /\ ~call.with_jd
    /\ call.detailed_scores = [keyword_match |-> 100, formatting |-> 0,
                               structure |-> 0, file_type |-> 0]
    /\ result.value = 0

\* C14: the result of an analysis carries ocr_used exactly when the text
\* that was analysed came from the OCR pass over a PDF (ocr_used is FALSE
\* in the model where the result has no such key)
C14_OcrTextIsTagged ==
    (pc = "returned" /\ call.op = "analyze_resume"
     /\ Has(result.value, "scores")) =>
        (result.value.ocr_used <=> OcrTextUsed(call.file, use_ocr))

\* C15: with OCR disabled or unavailable, a PDF whose text is shorter than
\* 100 characters, empty or not, ends its parse with an error or with the
\* limited-extraction flag and reaches no ATS, match or feedback stage; the
\* call returns a value
C15_ShortPdfTextIsFlagged ==
    (Parsed /\ call.file.ext = ".pdf" /\ ~use_ocr
     /\ EntryStripLen(call.file.text) < ImageTextLimit) =>
        /\ Has(resume_data, "error") \/ Get(resume_data, "ocr_limitation", FALSE)
        /\ SeqToSet(stages) \subseteq {"parse"}
        /\ pc = "returned" => result.ok

\* C16: after every call, and any number of them, no temporary directory
\* of _extract_text_using_ocr exists, whether the OCR pass returned text,
\* could not open or render the PDF, or raised in pytesseract
C16_TempDirsRemoved ==
    /\ temp_dirs = {}
    /\ \A f \in PdfFiles :
           ExtractTextUsingOcr(f, use_ocr, temp_dirs).dirs = temp_dirs

\* a second call whose OCR pass raised in pytesseract has left no directory
C16_Witness ==
    /\ Parsed /\ use_ocr /\ certifications_headers
    /\ OcrAttempted(call.file)
    /\ call.file.ocr = "ocr_raises"
    /\ resume_data.error = <<"No text could be extracted from the resume", "">>
    /\ temp_dirs = {}

\* C17: for a resume text and a job description that is a string, with R
\* and J their keyword sets, match_keywords returns matching_keywords =
\* R \cap J, missing_keywords = J \ R and resume_unique_keywords = R \ J:
\* matching and missing are disjoint and together are J; for the job
\* description "python sql java" and a resume with python and sql,
\* python and sql are matching and java is missing.  (A sorted list
\* without duplicates is a set in the model.)
C17_KeywordPartition ==
    (pc = "returned" /\ call.op = "match_keywords"
     /\ call.job_description # None) =>
        LET R == UNION {KmExtractKeywords(call.resume_text[i]) :
                           i \in DOMAIN call.resume_text}
            J == KmExtractKeywords(call.job_description)
        IN  /\ result.value.matching_keywords = R \cap J
            /\ result.value.missing_keywords = J \ R
            /\ result.value.resume_unique_keywords = R \ J
            /\ result.value.matching_keywords
                   \cap result.value.missing_keywords = {}
            /\ result.value.matching_keywords
                   \cup result.value.missing_keywords = J
            /\ (call.job_description = "python sql java"
                /\ {"python", "sql"} \subseteq R /\ "java" \notin R) =>
                   /\ {"python", "sql"} \subseteq result.value.matching_keywords
                   /\ "java" \in result.value.missing_keywords

\* the scenario: python and sql match, java is missing
C17_Witness ==
    /\ pc = "returned" /\ call.op = "match_keywords"
    /\ call.job_description = "python sql java"
    /\ call.resume_text = PlainText
    /\ result.value.matching_keywords = {"python", "sql"}
    /\ result.value.missing_keywords = {"java"}
    /\ result.value.resume_unique_keywords = {"doe", "john", "x.com"}

\* C18: no entry of key_gaps of a match report is one of its
\* matching_keywords, however many matching keywords there are
C18_KeyGapsAreNotMatched ==
    (pc = "returned" /\ call.op = "analyze_skill_match") =>
        SeqToSet(result.value.key_gaps) \cap result.value.matching_keywords = {}

\* C19: with the sentence transformer and with TF-IDF, for every pair of
\* texts and every cosine the backend can return,
\* _calculate_semantic_similarity returns a value in 0..100, and returns 0
\* when a text is empty or has no term left after preprocessing
C19_SimilarityInRange ==
    (pc = "returned" /\ call.op = "_calculate_semantic_similarity") =>
        /\ result.ok
        /\ result.value \in 0..100
        /\ (IsEmptyText(call.text1) \/ ~Truthy(call.text2)) => result.value = 0
        /\ (~call.use_transformer /\ NoTerms(call.text2)) => result.value = 0

\* C20: the overall_match_percentage of a match report is the weighted sum
\* 0.45 * skill_match + 0.25 * experience_match + 0.20 * skills_match
\* + 0.10 * education_match rounded once, where skill_match is
\* 0.7 * semantic_similarity + 0.3 * keyword_overlap_ratio, not rounded,
\* and keyword_overlap_ratio is |matching| / max(1, |job_keywords|) * 100
C20_OverallMatchRoundedOnce ==
    (pc = "returned" /\ call.op = "analyze_skill_match"
     /\ call.job_description # None) =>
        LET n == Max(1, Cardinality(KmExtractKeywords(call.job_description)))
            c == Cardinality(result.value.matching_keywords)
            sem == SemanticSimilarity(TRUE, call.job_description,
                                      call.backend.full)
        IN  result.value.overall_match_percentage
                = RoundHalfEven(
                      45 * (7 * sem * n + 3 * 100 * c)
                      + 10 * n * (25 * result.value.experience_match_percentage
                                  + 20 * result.value.skills_match_percentage
                                  + 10 * result.value.education_match_percentage),
                      1000 * n)

\* C21: extract_key_requirements(text, n) returns at most n entries without
\* duplicates, and on every ranking path a dictionary skill found in the
\* job description is in a result that has fewer than n entries
C21_RequirementsSupplemented ==
    (pc = "returned" /\ call.op = "extract_key_requirements" /\ result.ok) =>
        /\ Len(result.value) <= call.num_requirements
        /\ Cardinality(SeqToSet(result.value)) = Len(result.value)
        /\ Len(result.value) < call.num_requirements =>
               SeqToSet(CommonSkillsIn(call.job_description))
                   \subseteq SeqToSet(result.value)

\* C22: for a resume with the five canonical sections present with one
\* entry each (contact name, summary, experience, education, skills), in
\* any order of the headers and for every preferred format,
\* _check_structure returns the sub-score 100 and no feedback item
C22_FiveSectionsScoreFull ==
    (pc = "returned" /\ call.op = "_check_structure"
     /\ call.resume_data.contact_info.name # ""
     /\ call.resume_data.summary # <<>>
     /\ Len(call.resume_data.experience) = 1
     /\ Len(call.resume_data.education) = 1
     /\ call.resume_data.skills # {}) =>
        /\ result.value.score = 100
        /\ result.value.feedback = <<>>

\* C27: _check_structure appends the item on work experience before skills
\* exactly when the preferred format is chronological and the first skills
\* header is in the full text before the first experience header, at
\* whatever offsets the two headers are, offset 0 included
C27_OrderFeedbackIffSkillsFirst ==
    (pc = "returned" /\ call.op = "_check_structure") =>
        LET text == call.resume_data.full_text
            skills == {i \in DOMAIN text : "skills" \in AtsHeaderKinds(text[i])}
            experience ==
                {i \in DOMAIN text : "experience" \in AtsHeaderKinds(text[i])}
        IN  ("For chronological format, work experience should come before skills section"
                 \in SeqToSet(result.value.feedback))
            <=> /\ call.preferred_format = "chronological"
                /\ skills # {} /\ experience # {}
                /\ SetMin(skills) < SetMin(experience)

\* C23: when the text of the resume has no summary, objective or profile
\* header, the extracted summary is the first paragraph of the text, which
\* is not empty for a text that is not empty
C23_SummaryFallsBackToFirstParagraph ==
    (ParseSucceeded
     /\ \A i \in DOMAIN resume_data.full_text :
            "summary" \notin HeaderKinds(resume_data.full_text[i])) =>
        /\ resume_data.summary = FirstParagraph(resume_data.full_text)
        /\ resume_data.summary # <<>>

\* C24: the similarity backend is chosen when the KeywordMatcher is
\* constructed: no call of match_keywords, analyze_skill_match or
\* _calculate_semantic_similarity changes use_transformer, whether its
\* backend raises or not; a matcher whose transformer failed to load is on
\* the TF-IDF variant, and every call returns to its caller
C24_BackendChosenOnce ==
    /\ [][matcher'.use_transformer = matcher.use_transformer]_vars
    /\ [](matcher.tfidf_vectorizer = "plain" => ~matcher.use_transformer)
    /\ [](pc = "returned" => result.ok)

C24_Witness ==
    /\ pc = "returned"
    /\ call.op \in {"match_keywords", "analyze_skill_match",
                    "_calculate_semantic_similarity"}
    /\ call.raises
    /\ matcher = KeywordMatcherInit(TRUE, TRUE, TRUE)

\* C25: batch_analyze_resumes over a list of paths that is not empty returns
\* one result for every path, each paired with the file_path it came from
C25_OneResultPerPath ==
    (pc = "returned" /\ call.op = "batch_analyze_resumes"
     /\ call.resume_file_paths # <<>>) =>
        /\ result.ok
        /\ Len(result.value) = Len(call.resume_file_paths)
        /\ \A i \in DOMAIN call.resume_file_paths :
               result.value[i].file_path = call.resume_file_paths[i]

\* C26: in every state of the facade, the one with the spaCy model loaded
\* included, an operation whose spaCy call raises (or a calculate_similarity
\* that finds a zero vector norm) returns the result of the simplified
\* processor and does not raise
C26_FacadeFallsBack ==
    (pc = "returned" /\ call.op \in FacadeOps /\ call.facade.is_spacy
     /\ call.outcome # "ok") =>
        /\ result.ok
        /\ result.value.by = "simplified"

\* C28: the text _extract_text_from_pdf returns holds the text of each page
\* at most once, for every number of pages and every page at which the
\* layout-aware extractor fails before the sequential one takes over
C28_EachPageAtMostOnce ==
    (pc = "returned" /\ call.op = "_extract_text_from_pdf") =>
        \A i \in DOMAIN call.pages :
            Cardinality({k \in 1..(Len(result.value) - Len(call.pages[i]) + 1) :
                            SubSeq(result.value, k, k + Len(call.pages[i]) - 1)
                                = call.pages[i]}) <= 1

\* C29: for a set of job keywords that is not empty and each importance
\* tier, the keyword_match sub-score does not go down when one more of the
\* job keywords is found in the resume
C29_KeywordScoreMonotone ==
    (pc = "returned" /\ call.op = "keyword_match_score" /\ call.total > 0
     /\ call.matching < call.total) =>
        KeywordMatchScore(call.matching + 1, call.total,
                          call.keyword_importance) >= result.value

\* C30: the improvement_suggestions of _generate_suggestions are never
\* empty and always hold the general suggestion on clear section headings
\* and concise bullet points, whatever the sub-scores; the well-optimized
\* message is emitted for no input
C30_GeneralSuggestionAlways ==
    (pc = "returned" /\ call.op = "_generate_suggestions") =>
        /\ result.value # <<>>
        /\ GeneralSuggestion \in SeqToSet(result.value)
        /\ WellOptimized \notin SeqToSet(result.value)

C30_Witness ==
    /\ pc = "returned"
    /\ call.op = "_generate_suggestions"
    /\ \A k \in SubScores : call.analysis_result.detailed_scores[k] = 100
    /\ call.platform_rules.parsing_rules.preferred_format # "chronological"
    /\ result.value = <<GeneralSuggestion>>
====
